---- MODULE Spec2Model ----
(***************************************************************************)
(* Model of .github/workflows/validateArchive.py: the virtual archive      *)
(* namespace (Archive, Main.__init__, Main.getFileContent), the path       *)
(* resolver (__resolve, resolveRelative, resolveLink), the reference and   *)
(* link checks, the main validation loop, the validation of one            *)
(* STM32CubeIDE project, the output with --exclude, the lists with --skip  *)
(* and the validation of one script.                                       *)
(*                                                                         *)
(* Python strings are modelled as sequences of one-character strings, so   *)
(* that slicing, splitting, case folding and the regular expressions are   *)
(* computed as the code computes them.  None and a raised exception are    *)
(* the one-element sequences NoneV and Raise, which no string equals.      *)
(***************************************************************************)
EXTENDS Integers, Sequences, FiniteSets, TLC

VARIABLES
    \* ---- path resolver (__resolve, resolveLink) ----
    rProj,      \* project root the reference belongs to
    rBuild,     \* build_path of the configuration
    rValue,     \* option value / eclipseUri
    rShape,     \* how the input was built (segments), for stating the claims
    rOp,        \* operation applied: "idle" | "resolve" | "resolveLink"
    rOut        \* its result: a string, NoneV or Raise

resVars == <<rProj, rBuild, rValue, rShape, rOp, rOut>>

VARIABLES
    \* ---- archives and the layered namespace (Archive, Main.__init__) ----
    zips,       \* the zip files given on the command line, in input order:
                \* each a list of stored entries [name, ok, data]
    zModels,    \* Archive.__model of each archive: path -> stored name or None
    zi,         \* archive under construction
    ze,         \* entry of zf.namelist() being added
    tmp,        \* tmp of Archive.__init__
    zpc,        \* "entry" | "parents" | "main" | "ready" | "off"
    archives,   \* Main.archives: archive indices, highest priority first
    names,      \* Main.names
    lc_names,   \* Main.lc_names
    qPath,      \* last path asked of Main.getFileContent
    qOut        \* and what it returned

archVars == <<zips, zModels, zi, ze, tmp, zpc, archives, names, lc_names, qPath, qOut>>

VARIABLES
    \* ---- one project's linked resources and build options ----
    project,                \* proj of validateEclipseProject: the project being validated
    iocFiles,               \* iocFiles of validateEclipseProject
    link_validation_cache,  \* Main.link_validation_cache
    out,                    \* findings printed by the last step, in order
    checked,                \* the resolved paths the last step looked up
    lastOp,                 \* the last step and its input
    lstatus,                \* "links" | "options" | "raised" | "off"
    unlinked                \* history: the .ioc files beside the project that no link
                            \* validated so far targets or has beneath its target

refVars == <<project, iocFiles, link_validation_cache, out, checked, lastOp, lstatus, unlinked>>

VARIABLES
    \* ---- the run (__main__) ----
    phase,                  \* "projects" | "subproject" | "again" | "scripts" | "done" | "aborted" | "off"
    total_projects, failed_proj, listof_failed_projects,
    list_subproj,           \* how many entries of list_subproj are still to come
    subproj,                \* the sub-project of the loop of line 1166
    failed_subproj,
    total_scripts, failed_scripts, listof_failed_scripts,
    printed,                \* the findings main.print was given, in order
    verdict,                \* the summary line: "FAILED" | "SUCCESSFUL" | "none"
    uncaught,                 \* the exception that ended the run, or "none"
    exitCode                \* exit status of the process, -1 while it runs

runVars == <<phase, total_projects, failed_proj, listof_failed_projects, list_subproj,
             subproj, failed_subproj, total_scripts, failed_scripts,
             listof_failed_scripts, printed, verdict, uncaught, exitCode>>

VARIABLES
    \* ---- one STM32CubeIDE project (validateEclipseProject, validateCubeIDEProject) ----
    cpc,            \* where the validation stands: "eclipse" | "start" | "root" | "leaf" |
                    \* "family" | "names" | "config" | "options" | "returned" | "raised" | "off"
    cproj,          \* what .project and .cproject of the project say, and options.pedantic
    mcuFamily,      \* mcuFamily of validateCubeIDEProject
    cvalid,         \* valid
    cin,            \* what the last step read
    cout,           \* the findings the last step printed, in order
    configsLeft,    \* the configurations the loop of line 633 has still to visit
    configName,     \* configName of the configuration being visited
    optionsLeft,    \* how many <option> nodes of it are still to come
    libListed,      \* history: the linkers of this configuration whose additional
                    \* objects held the expected secure_nsclib.o
    libReported,    \* history: ER032 was printed for this configuration
    cexc            \* the exception that left the validation, or "none"

cubeVars == <<cpc, cproj, mcuFamily, cvalid, cin, cout, configsLeft, configName,
              optionsLeft, libListed, libReported, cexc>>

VARIABLES
    \* ---- the output (Main.print) ----
    error_to_exclude,   \* options.error_to_exclude: the value of --exclude, None when not given
    jenkinsParser,      \* options.jenkinsParser
    said,               \* history: the findings handed to Main.print, in order
    logged              \* the lines written with logger.error, in order

printVars == <<error_to_exclude, jenkinsParser, said, logged>>

VARIABLES
    \* ---- the option --skip (__main__, Main.skipProject, Main.skipScript) ----
    file_to_skip,   \* options.file_to_skip: the value of --skip, None when not given
    proj_list,      \* proj_list of __main__: the projects still to be validated
    list_scripts,   \* list_scripts of __main__: the scripts still to be validated
    called,         \* history: the arguments of the calls of validateEclipseProject
    missing,        \* history: the projects reported with ER100
    scripted,       \* history: the arguments of the calls of validateScript
    skpc            \* "start" | "projects" | "scripts" | "validate" | "done" | "raised" | "off"

skipVars == <<file_to_skip, proj_list, list_scripts, called, missing, scripted, skpc>>

VARIABLES
    \* ---- one script (Main.validateScript) ----
    sname,      \* script: the path of the script
    scontent,   \* content: what getFileContent gives for it
    sres,       \* what validateScript computed: eolFormat, interpreter, the
                \* findings printed, valid and the exception that left it
    scpc        \* "call" | "returned" | "off"

scriptVars == <<sname, scontent, sres, scpc>>

vars == <<resVars, archVars, refVars, runVars, cubeVars, printVars, skipVars, scriptVars>>

\* What the actions of one part leave alone: the variables of the other parts
notRes == <<archVars, refVars, runVars, cubeVars, printVars, skipVars, scriptVars>>
notArch == <<resVars, refVars, runVars, cubeVars, printVars, skipVars, scriptVars>>
notRef == <<resVars, zips, zModels, zi, ze, tmp, zpc, archives, qPath, qOut, runVars, cubeVars, printVars, skipVars, scriptVars>>
notRun == <<resVars, archVars, refVars, cubeVars, printVars, skipVars, scriptVars>>
notCube == <<resVars, archVars, refVars, runVars, printVars, skipVars, scriptVars>>
notPrint == <<resVars, archVars, refVars, runVars, cubeVars, skipVars, scriptVars>>
notSkip == <<resVars, zips, zModels, zi, ze, tmp, zpc, archives, qPath, qOut, refVars, runVars, cubeVars, printVars, scriptVars>>
notScript == <<resVars, archVars, refVars, runVars, cubeVars, printVars, skipVars>>

-----------------------------------------------------------------------------
(* Values that are not strings *)

NoneV == <<"None">>
Raise == <<"Raise">>

IsStr(s) == s # NoneV /\ s # Raise

-----------------------------------------------------------------------------
(* Python string primitives *)

Slash == "/"

RECURSIVE Concat(_)
Concat(ss) == IF ss = <<>> THEN <<>> ELSE Head(ss) \o Concat(Tail(ss))

StartsWith(s, pre) ==
    /\ Len(pre) <= Len(s)
    /\ SubSeq(s, 1, Len(pre)) = pre

EndsWith(s, suf) ==
    /\ Len(suf) <= Len(s)
    /\ SubSeq(s, Len(s) - Len(suf) + 1, Len(s)) = suf

DropFirst(s, n) == SubSeq(s, n + 1, Len(s))

\* str.rstrip("/")
RECURSIVE RStripSlash(_)
RStripSlash(s) ==
    IF s # <<>> /\ s[Len(s)] = Slash
    THEN RStripSlash(SubSeq(s, 1, Len(s) - 1))
    ELSE s

\* str.rfind(c) + 1: the index after the last c, 0 when there is none
RFind1(s, c) ==
    LET I == {i \in 1..Len(s) : s[i] = c}
    IN  IF I = {} THEN 0 ELSE CHOOSE i \in I : \A j \in I : j <= i

\* str.replace("//", "/"): one left-to-right pass over non-overlapping matches
RECURSIVE ReplaceDoubleSlash(_)
ReplaceDoubleSlash(s) ==
    IF Len(s) < 2 THEN s
    ELSE IF s[1] = Slash /\ s[2] = Slash
         THEN <<Slash>> \o ReplaceDoubleSlash(DropFirst(s, 2))
         ELSE <<s[1]>> \o ReplaceDoubleSlash(Tail(s))

\* str.split("/")
RECURSIVE Split(_)
Split(s) ==
    LET I == {i \in 1..Len(s) : s[i] = Slash}
    IN  IF I = {} THEN <<s>>
        ELSE LET i == CHOOSE k \in I : \A j \in I : k <= j
             IN  <<SubSeq(s, 1, i - 1)>> \o Split(DropFirst(s, i))

\* "/".join(segs)
RECURSIVE JoinSlash(_)
JoinSlash(segs) ==
    IF segs = <<>> THEN <<>>
    ELSE IF Len(segs) = 1 THEN segs[1]
    ELSE segs[1] \o <<Slash>> \o JoinSlash(Tail(segs))

UpperChars == <<"A", "B", "C", "D", "E", "F", "G", "H", "I", "J", "K", "L", "M",
                "N", "O", "P", "Q", "R", "S", "T", "U", "V", "W", "X", "Y", "Z">>
LowerChars == <<"a", "b", "c", "d", "e", "f", "g", "h", "i", "j", "k", "l", "m",
                "n", "o", "p", "q", "r", "s", "t", "u", "v", "w", "x", "y", "z">>

LowerChar(c) ==
    IF \E i \in 1..Len(UpperChars) : UpperChars[i] = c
    THEN LowerChars[CHOOSE i \in 1..Len(UpperChars) : UpperChars[i] = c]
    ELSE c

\* str.lower()
lower(s) == [i \in 1..Len(s) |-> LowerChar(s[i])]

-----------------------------------------------------------------------------
(* Module-level path helpers *)

myPathJoin(a, b) == ReplaceDoubleSlash(a \o <<Slash>> \o b)

appendSlashIfMissing(s) ==
    IF s # <<>> /\ s[Len(s)] # Slash THEN s \o <<Slash>> ELSE s

\* os.path.dirname
dirname(s) ==
    LET head == SubSeq(s, 1, RFind1(s, Slash))
    IN  IF head # <<>> /\ \E i \in 1..Len(head) : head[i] # Slash
        THEN RStripSlash(head)
        ELSE head

\* os.path.basename
basename(s) == DropFirst(s, RFind1(s, Slash))

getParentDirectory(s) == appendSlashIfMissing(dirname(RStripSlash(s)))

getBasename(s) == basename(RStripSlash(s))

-----------------------------------------------------------------------------
(* Path resolver *)

Quote == "\""

\* removeQuotation without the stripping: the quotation marks stay in the path
removeQuotation_Kept(s) == s

removeQuotation(s) ==
    IF Len(s) >= 2 /\ s[1] = Quote /\ s[Len(s)] = Quote
    THEN SubSeq(s, 2, Len(s) - 1)
    ELSE s

\* re.match(r"(/\.\.)+$", res)
IsDotDotChain(res) ==
    /\ Len(res) > 0
    /\ Len(res) % 3 = 0
    /\ \A i \in 1..Len(res) :
          res[i] = IF i % 3 = 1 THEN Slash ELSE "."

DotDot == <<".", ".">>
Dot == <<".">>

\* resolveRelative with ".." at the root dropped instead of appended
resolveRelativeStep_NoOpAtRoot(res, p) ==
    IF p = DotDot
    THEN IF res = <<Slash>> THEN res ELSE getParentDirectory(res)
    ELSE IF p # Dot THEN myPathJoin(res, p)
    ELSE res

resolveRelativeStep(res, p) ==
    IF p = DotDot /\ ~(res = <<Slash>> \/ IsDotDotChain(res))
    THEN getParentDirectory(res)
    ELSE IF p # Dot THEN myPathJoin(res, p)
    ELSE res

RECURSIVE resolveRelativeFold(_, _)
resolveRelativeFold(res, segs) ==
    IF segs = <<>> THEN res
    ELSE resolveRelativeFold(resolveRelativeStep(res, Head(segs)), Tail(segs))

resolveRelative(proj, path) == resolveRelativeFold(proj, Split(path))

-----------------------------------------------------------------------------
(* The three regular expressions of the resolver, matched with re.match,   *)
(* that is anchored at the start of the value and not at its end.          *)

WsProjPrefix == <<"$", "{", "w", "o", "r", "k", "s", "p", "a", "c", "e", "_", "l", "o", "c", ":", "/", "$", "{", "P", "r", "o", "j", "N", "a", "m", "e", "}", "/">>
WsLocPrefix == <<"$", "{", "w", "o", "r", "k", "s", "p", "a", "c", "e", "_", "l", "o", "c", ":">>
ProjNamePrefix == <<"$", "{", "P", "r", "o", "j", "N", "a", "m", "e">>
ParentOpen == <<"$", "%", "7", "B">>
ParentWord == <<"P", "A", "R", "E", "N", "T", "-">>
ProjectLocWord == <<"-", "P", "R", "O", "J", "E", "C", "T", "_", "L", "O", "C">>
ParentClose == <<"%", "7", "D">>

Digits == <<"0", "1", "2", "3", "4", "5", "6", "7", "8", "9">>
IsDigit(c) == \E i \in 1..Len(Digits) : Digits[i] = c
DigitVal(c) == (CHOOSE i \in 1..Len(Digits) : Digits[i] = c) - 1

\* an optional leading quotation mark: \"?
SkipQuote(value) ==
    IF value # <<>> /\ value[1] = Quote THEN Tail(value) ELSE value

\* r"\"?\${workspace_loc:/\${ProjName}/(.*)}(.*?)\"?"
\* Matches when the prefix is followed by at least one "}".
wsMatch(value) ==
    \/ /\ StartsWith(value, WsProjPrefix)
       /\ RFind1(DropFirst(value, Len(WsProjPrefix)), "}") > 0
    \/ /\ StartsWith(SkipQuote(value), WsProjPrefix)
       /\ RFind1(DropFirst(SkipQuote(value), Len(WsProjPrefix)), "}") > 0

\* group(1): (.*) is greedy, it runs to the last "}" of the value
wsGroup1(value) ==
    LET v == IF StartsWith(value, WsProjPrefix) THEN value ELSE SkipQuote(value)
        body == DropFirst(v, Len(WsProjPrefix))
    IN  SubSeq(body, 1, RFind1(body, "}") - 1)

\* group(2): (.*?) is lazy and nothing anchors the end of the pattern (\"? may
\* match nothing), so the shortest match, the empty string, is the match
wsGroup2(value) == <<>>

\* r"\"?\${(workspace_loc:|ProjName)"
unverifiableMatch(value) ==
    \/ StartsWith(value, WsLocPrefix) \/ StartsWith(value, ProjNamePrefix)
    \/ StartsWith(SkipQuote(value), WsLocPrefix)
    \/ StartsWith(SkipQuote(value), ProjNamePrefix)

\* Main.__resolve; re.match raises TypeError on None
resolve(proj, build_path, value) ==
    IF value = NoneV THEN Raise
    ELSE IF wsMatch(value)
         THEN resolveRelative(proj, wsGroup1(value) \o wsGroup2(value))
    ELSE IF ~unverifiableMatch(value)
         THEN resolveRelative(build_path, removeQuotation(value))
    ELSE NoneV

\* [0-9]+ : the longest run of digits at the start of s
RECURSIVE DigitRun(_)
DigitRun(s) ==
    IF s # <<>> /\ IsDigit(s[1]) THEN <<s[1]>> \o DigitRun(Tail(s)) ELSE <<>>

\* int(digits)
RECURSIVE ToInt(_)
ToInt(ds) ==
    IF ds = <<>> THEN 0
    ELSE 10 * ToInt(SubSeq(ds, 1, Len(ds) - 1)) + DigitVal(ds[Len(ds)])

\* r'(?:\$%7B)?PARENT-([0-9]+)-PROJECT_LOC(?:%7D)?/(.*)'
\* The value after the optional "$%7B" and the word "PARENT-"
parentAfterWord(uri) ==
    LET v == IF StartsWith(uri, ParentOpen) THEN DropFirst(uri, Len(ParentOpen)) ELSE uri
    IN  IF StartsWith(v, ParentWord) THEN DropFirst(v, Len(ParentWord)) ELSE NoneV

\* The value after "-PROJECT_LOC" and the optional "%7D"
parentAfterLoc(uri) ==
    LET a == parentAfterWord(uri)
        b == IF a = NoneV THEN NoneV ELSE DropFirst(a, Len(DigitRun(a)))
        c == IF b # NoneV /\ StartsWith(b, ProjectLocWord)
             THEN DropFirst(b, Len(ProjectLocWord)) ELSE NoneV
    IN  IF c = NoneV THEN NoneV
        ELSE IF StartsWith(c, ParentClose) THEN DropFirst(c, Len(ParentClose)) ELSE c

parentMatch(uri) ==
    /\ parentAfterWord(uri) # NoneV
    /\ DigitRun(parentAfterWord(uri)) # <<>>
    /\ parentAfterLoc(uri) # NoneV
    /\ StartsWith(parentAfterLoc(uri), <<Slash>>)

parentGroup1(uri) == DigitRun(parentAfterWord(uri))
parentGroup2(uri) == Tail(parentAfterLoc(uri))

\* the walk of resolveLink one level short: range(1, n) for range(n)
RECURSIVE parentWalk_OneShort(_, _)
parentWalk_OneShort(d, n) ==
    IF n <= 1 THEN d ELSE parentWalk_OneShort(getParentDirectory(d), n - 1)

RECURSIVE parentWalk(_, _)
parentWalk(d, n) == IF n = 0 THEN d ELSE parentWalk(getParentDirectory(d), n - 1)

\* Main.resolveLink; re.match raises TypeError on None
resolveLink(proj, eclipseUri) ==
    IF eclipseUri = NoneV THEN Raise
    ELSE IF parentMatch(eclipseUri)
         THEN myPathJoin(parentWalk(proj, ToInt(parentGroup1(eclipseUri))),
                         parentGroup2(eclipseUri))
    ELSE eclipseUri

-----------------------------------------------------------------------------
(* Inputs of the resolver: projects, build paths and option values, built  *)
(* from segments so that the claims can speak of "k leading '..' segments". *)

MaxDepth == 2     \* directory levels of a project root
MaxUp == 4        \* leading ".." segments of a token, levels of a PARENT-n link
MaxRest == 2      \* segments after the leading ".." run

SeqsUpTo(S, n) == UNION {[1..k -> S] : k \in 0..n}

ProjSegNames == {<<"P">>, <<"q">>}
RestSegNames == {<<"a">>, Dot, DotDot}
ConfigDebug == <<"D", "e", "b", "u", "g">>

\* "/seg1/seg2": the absolute path of a list of segments
Abs(segs) == <<Slash>> \o JoinSlash(segs)

\* A project root as listEclipseProjects yields it: with a trailing "/"
ProjPath(segs) == appendSlashIfMissing(Abs(segs))

RECURSIVE Repeat(_, _)
Repeat(x, n) == IF n = 0 THEN <<>> ELSE <<x>> \o Repeat(x, n - 1)

Quoted(q, s) == IF q THEN <<Quote>> \o s \o <<Quote>> ELSE s

Shapes ==
    [kind : {"rel", "ws"}, k : 0..MaxUp, rest : SeqsUpTo(RestSegNames, MaxRest),
     suffix : {<<>>, <<Slash, "s">>}, quoted : BOOLEAN, open : {FALSE}, close : {FALSE}, pad : {FALSE}]
    \cup
    [kind : {"parent"}, k : 0..MaxUp, rest : SeqsUpTo(RestSegNames, MaxRest),
     suffix : {<<>>}, quoted : {FALSE}, open : BOOLEAN, close : BOOLEAN, pad : BOOLEAN]
    \cup
    [kind : {"wsOther", "projName", "none", "halfQuoted"}, k : {0}, rest : {<<>>},
     suffix : {<<>>}, quoted : {FALSE}, open : {FALSE}, close : {FALSE}, pad : {FALSE}]

WellFormedShape(sh) ==
    /\ sh.kind = "rel" => (sh.suffix = <<>> /\ sh.k + Len(sh.rest) >= 1)
    /\ sh.kind = "ws" => sh.k = 0

ShapeValue(sh) ==
    CASE sh.kind = "rel" ->
            Quoted(sh.quoted, JoinSlash(Repeat(DotDot, sh.k) \o sh.rest))
      [] sh.kind = "ws" ->
            Quoted(sh.quoted, WsProjPrefix \o JoinSlash(sh.rest) \o <<"}">> \o sh.suffix)
      [] sh.kind = "parent" ->
            (IF sh.open THEN ParentOpen ELSE <<>>) \o ParentWord
            \o (IF sh.pad THEN <<"0">> ELSE <<>>) \o <<Digits[sh.k + 1]>>
            \o ProjectLocWord \o (IF sh.close THEN ParentClose ELSE <<>>)
            \o <<Slash>> \o JoinSlash(sh.rest)
      [] sh.kind = "wsOther" -> WsLocPrefix \o <<Slash, "O", Slash, "a", "}">>
      [] sh.kind = "projName" -> ProjNamePrefix \o <<"}", Slash, "a">>
      [] sh.kind = "halfQuoted" -> <<Quote, "a">>
      [] sh.kind = "none" -> NoneV

ResInit ==
    /\ \E segs \in SeqsUpTo(ProjSegNames, MaxDepth) :
          /\ rProj = [segs |-> segs, path |-> ProjPath(segs)]
          \* build_path = myPathJoin(proj, configName or "dummy")
          /\ rBuild = myPathJoin(ProjPath(segs), ConfigDebug)
    /\ \E sh \in Shapes :
          /\ WellFormedShape(sh)
          /\ rShape = sh
          /\ rValue = ShapeValue(sh)
    /\ rOp = "idle"
    /\ rOut = NoneV

\* A build-option value is resolved
Resolve ==
    /\ rOp = "idle"
    /\ rOp' = "resolve"
    /\ rOut' = resolve(rProj.path, rBuild, rValue)
    /\ UNCHANGED <<rProj, rBuild, rValue, rShape>>
    /\ UNCHANGED notRes

\* The locationURI of a linked resource is resolved
ResolveLink ==
    /\ rOp = "idle"
    /\ rOp' = "resolveLink"
    /\ rOut' = resolveLink(rProj.path, rValue)
    /\ UNCHANGED <<rProj, rBuild, rValue, rShape>>
    /\ UNCHANGED notRes

ResNext == Resolve \/ ResolveLink


-----------------------------------------------------------------------------
(* Properties of the path resolver (SpecResolve) *)

NoDotDot(rest) == \A i \in 1..Len(rest) : rest[i] # DotDot
NonDot(rest) == SelectSeq(rest, LAMBDA x : x # Dot)
Keep(segs, n) == SubSeq(segs, 1, n)
BuildSegs == rProj.segs \o <<ConfigDebug>>
HasDotDotSegment(path) == \E i \in 1..Len(Split(path)) : Split(path)[i] = DotDot

\* The token is k leading ".." segments followed by a remainder without ".."
RelativeCase ==
    /\ rOp = "resolve"
    /\ rShape.kind = "rel"
    /\ NoDotDot(rShape.rest)

\* C6: a relative token, quoted or not, made of k leading ".." segments and a
\* remainder, resolved against a build path of at least k levels, gives the
\* directory k levels above the build path joined with the remainder, every
\* "." segment dropped.
C6_RelativeResolution ==
    (RelativeCase /\ NonDot(rShape.rest) # <<>> /\ rShape.k <= Len(BuildSegs))
    => rOut = Abs(Keep(BuildSegs, Len(BuildSegs) - rShape.k) \o NonDot(rShape.rest))

\* The quoted token "../../a/." resolved from /P/Debug gives /a
C6_Witness ==
    /\ RelativeCase
    /\ rShape.quoted
    /\ rShape.k = 2
    /\ rShape.rest = <<<<"a">>, Dot>>
    /\ rProj.segs = <<<<"P">>>>
    /\ rOut = <<Slash, "a">>

\* C7 as stated: with more ".." segments than the base path has levels, the
\* result is the root joined with the remaining segments and has no ".." in it.
C7_RootPopIsNoOp ==
    (RelativeCase /\ rShape.k > Len(BuildSegs))
    => /\ rOut = Abs(NonDot(rShape.rest))
       /\ ~HasDotDotSegment(rOut)

\* C7 amended: a ".." met at the root is not dropped but appended, so every
\* ".." in excess of the base path's levels stays in the result, right after
\* the root and before the remaining segments.
C7_ExcessDotDotKept ==
    (RelativeCase /\ rShape.k > Len(BuildSegs))
    => rOut = Abs(Repeat(DotDot, rShape.k - Len(BuildSegs)) \o NonDot(rShape.rest))

\* "../../../../a" resolved from /P/Debug gives /../../a
C7_Witness ==
    /\ RelativeCase
    /\ rShape.k = 4
    /\ Len(BuildSegs) = 2
    /\ rShape.rest = <<<<"a">>>>
    /\ rOut = <<Slash, ".", ".", Slash, ".", ".", Slash, "a">>

\* The value is ${workspace_loc:/${ProjName}/<rest>}<suffix> with a plain <rest>
WorkspaceCase ==
    /\ rOp = "resolve"
    /\ rShape.kind = "ws"
    /\ rShape.rest # <<>>
    /\ \A i \in 1..Len(rShape.rest) : rShape.rest[i] \notin {Dot, DotDot}

\* C8: ${workspace_loc:/${ProjName}/<rest>}<suffix>, quoted or not, resolves to
\* the project's root joined with <rest>, followed by <suffix>, whatever the
\* build path is.
C8_WorkspaceLocSuffix ==
    WorkspaceCase => rOut = Abs(rProj.segs \o rShape.rest) \o rShape.suffix

\* What the code does with it: <suffix> is lost
C8_SuffixDropped ==
    WorkspaceCase => rOut = Abs(rProj.segs \o rShape.rest)

\* The link is PARENT-n-PROJECT_LOC/rest, percent-encoded or not
ParentCase ==
    /\ rOp = "resolveLink"
    /\ rShape.kind = "parent"
    /\ rShape.rest # <<>>

Max0(n) == IF n < 0 THEN 0 ELSE n

\* C9: resolveLink of PARENT-n-PROJECT_LOC/rest, also percent-encoded, is the
\* directory n levels above the project joined with rest, and /rest when n is
\* at least the depth of the project.
C9_ParentLink ==
    ParentCase
    => rOut = Abs(Keep(rProj.segs, Max0(Len(rProj.segs) - rShape.k)) \o rShape.rest)

\* $%7BPARENT-3-PROJECT_LOC%7D/a from a project two levels deep gives /a
C9_Witness ==
    /\ ParentCase
    /\ rShape.open /\ rShape.close
    /\ rShape.k = 3
    /\ Len(rProj.segs) = 2
    /\ rShape.rest = <<<<"a">>>>
    /\ rOut = <<Slash, "a">>

-----------------------------------------------------------------------------
(* Archive.__init__ for a zip file, one loop iteration per action, then    *)
(* Main.__init__ and Main.getFileContent.                                   *)

MaxNameLen == 3   \* longest stored entry name of a zip file

NameChars == {Slash, "a", "A"}
ArchiveIds == 1..2

StoredNames == UNION {[1..n -> NameChars] : n \in 1..MaxNameLen}

\* dict assignment: self.__model[key] = value
DictPut(model, key, value) == (key :> value) @@ model

\* the parent loop adding the root only: intermediate directories are lost
AddParent_RootOnly(model, parent) ==
    IF parent = <<Slash>> THEN DictPut(model, parent, NoneV) ELSE model

\* lines 145-146: a parent that is no key yet is added with no content handle
AddParent(model, parent) ==
    IF parent \in DOMAIN model THEN model ELSE DictPut(model, parent, NoneV)

\* lines 136-137: all paths are absolute
AbsoluteName(x) == IF x[1] # Slash THEN <<Slash>> \o x ELSE x

EmptyDict == [k \in {} |-> NoneV]

ArchInit ==
    /\ zips \in [ArchiveIds ->
                   [1..1 -> [name : StoredNames, ok : BOOLEAN, data : {<<"data">>}]]]
    /\ zModels = [i \in ArchiveIds |-> EmptyDict]
    /\ zi = 1
    /\ ze = 1
    /\ tmp = NoneV
    /\ zpc = "entry"
    /\ archives = <<>>
    /\ names = {}
    /\ lc_names = {}
    /\ qPath = NoneV
    /\ qOut = NoneV

\* The loops move on: next stored name, next archive, or Main(options, archives)
Advance ==
    IF ze < Len(zips[zi])
    THEN /\ ze' = ze + 1 /\ zi' = zi /\ zpc' = "entry"
    ELSE IF zi + 1 \in ArchiveIds
    THEN /\ ze' = 1 /\ zi' = zi + 1 /\ zpc' = "entry"
    ELSE /\ ze' = ze /\ zi' = zi /\ zpc' = "main"

\* lines 132-139: a stored name becomes a key of the model
ArchiveEntry ==
    /\ zpc = "entry"
    /\ LET x == zips[zi][ze].name
           t == AbsoluteName(x)
       IN  /\ tmp' = t
           /\ zModels' = [zModels EXCEPT ![zi] = DictPut(@, t, x)]
           /\ IF t # <<Slash>>
              THEN /\ zpc' = "parents" /\ UNCHANGED <<zi, ze>>
              ELSE Advance
    /\ UNCHANGED <<zips, archives, names, lc_names, qPath, qOut>>
    /\ UNCHANGED notArch

\* lines 142-146: one iteration of "while tmp != '/'"
ArchiveParent ==
    /\ zpc = "parents"
    /\ tmp # <<Slash>>
    /\ LET t == getParentDirectory(tmp)
           parent == appendSlashIfMissing(t)
       IN  /\ tmp' = t
           /\ zModels' = [zModels EXCEPT ![zi] = AddParent(@, parent)]
           /\ IF t # <<Slash>>
              THEN UNCHANGED <<zi, ze, zpc>>
              ELSE Advance
    /\ UNCHANGED <<zips, archives, names, lc_names, qPath, qOut>>
    /\ UNCHANGED notArch

RECURSIVE Reversed(_)
Reversed(sq) == IF sq = <<>> THEN <<>> ELSE Reversed(Tail(sq)) \o <<Head(sq)>>

\* line 169: later archives come first
MainArchives(inputOrder) == Reversed(inputOrder)

\* lines 167-173
MainInit ==
    /\ zpc = "main"
    /\ archives' = MainArchives([i \in ArchiveIds |-> i])
    /\ names' = UNION {DOMAIN zModels[i] : i \in ArchiveIds}
    /\ lc_names' = {lower(x) : x \in UNION {DOMAIN zModels[i] : i \in ArchiveIds}}
    /\ zpc' = "ready"
    /\ UNCHANGED <<zips, zModels, zi, ze, tmp, qPath, qOut>>
    /\ UNCHANGED notArch

\* zf.open(name).read(): the entry stored last under that name
StoredEntry(i, name) ==
    LET I == {k \in 1..Len(zips[i]) : zips[i][k].name = name}
    IN  zips[i][CHOOSE k \in I : \A j \in I : j <= k]

\* lines 154-157: bytes are decoded as UTF-8, which raises when they are not
convertToStr(i, entry) ==
    IF entry.ok THEN entry.data \o <<Digits[i + 1]>> \o entry.name ELSE Raise

\* Archive.getFileContent of a zip archive: a KeyError on an absent path, an
\* error on a synthesized directory (zf.open(None)), else the decoded content
ArchiveGetFileContent(i, path) ==
    IF path \notin DOMAIN zModels[i] THEN Raise
    ELSE IF zModels[i][path] = NoneV THEN Raise
    ELSE convertToStr(i, StoredEntry(i, zModels[i][path]))

\* lines 236-240: the first archive whose read does not raise ("except: pass")
RECURSIVE FirstContent(_, _)
FirstContent(as, path) ==
    IF as = <<>> THEN NoneV
    ELSE IF ArchiveGetFileContent(Head(as), path) # Raise
         THEN ArchiveGetFileContent(Head(as), path)
         ELSE FirstContent(Tail(as), path)

\* Main.getFileContent
getFileContent(path) ==
    IF path \in names THEN FirstContent(archives, path) ELSE NoneV

QueryPaths == names \cup {lower(x) : x \in names}

GetFileContent ==
    /\ zpc = "ready"
    /\ \E p \in QueryPaths :
          /\ qPath' = p
          /\ qOut' = getFileContent(p)
    /\ UNCHANGED <<zips, zModels, zi, ze, tmp, zpc, archives, names, lc_names>>
    /\ UNCHANGED notArch

ArchNext == ArchiveEntry \/ ArchiveParent \/ MainInit \/ GetFileContent

-----------------------------------------------------------------------------
(* Properties of the archives and the layered namespace (SpecArchive) *)

Contains(i, p) == p \in DOMAIN zModels[i]
IsFilePath(p) == p # <<>> /\ p[Len(p)] # Slash
LatestContaining(p) ==
    CHOOSE i \in ArchiveIds : Contains(i, p) /\ \A j \in ArchiveIds : Contains(j, p) => j <= i

\* The content archive i holds under path p, whether or not it can be decoded
Held(i, p) ==
    LET e == StoredEntry(i, zModels[i][p])
    IN  e.data \o <<Digits[i + 1]>> \o e.name

Queried == zpc = "ready" /\ qPath # NoneV

\* C3: getFileContent(p) is the content held by the latest-given archive that
\* contains the file path p with exactly that case, and p is in Main.names
\* exactly when some archive contains p.
C3_LayerPrecedence ==
    Queried =>
        /\ (IsFilePath(qPath) /\ \E i \in ArchiveIds : Contains(i, qPath))
              => qOut = Held(LatestContaining(qPath), qPath)
        /\ qPath \in names <=> \E i \in ArchiveIds : Contains(i, qPath)

\* What the code guarantees: the content comes from the latest-given archive
\* that contains p and whose bytes decode; None when there is none.
C3_LatestDecodable ==
    Queried =>
        LET R == {i \in ArchiveIds : Contains(i, qPath)
                                     /\ ArchiveGetFileContent(i, qPath) # Raise}
        IN  /\ R = {} => qOut = NoneV
            /\ R # {} => \E i \in R : /\ \A j \in R : j <= i
                                      /\ qOut = Held(i, qPath)

\* The directories above p: every proper prefix of p that ends a segment,
\* written with one trailing "/"
Ancestors(p) ==
    LET st == RStripSlash(p)
    IN  {RStripSlash(SubSeq(st, 1, i)) \o <<Slash>> : i \in {j \in 1..Len(st) : st[j] = Slash}}

\* C4: once the namespace is built from zip archives, every path in it has all
\* its ancestor directories, up to the root, in it too.
C4_AncestorsPresent ==
    zpc = "ready" => \A p \in names : Ancestors(p) \subseteq names

\* An archive holding only "a/a": "/a/" is in the namespace and was synthesized
C4_Witness ==
    /\ zpc = "ready"
    /\ zips[1][1].name = <<"a", Slash, "a">>
    /\ <<Slash, "a", Slash, "a">> \in names
    /\ <<Slash, "a", Slash>> \in names
    /\ <<Slash>> \in names
    /\ \A i \in ArchiveIds :
          Contains(i, <<Slash, "a", Slash>>) => zModels[i][<<Slash, "a", Slash>>] = NoneV

-----------------------------------------------------------------------------
(* Linked resources and build options of one project: the link loop of     *)
(* validateEclipseProject, validateFileLink, validateDirLink,              *)
(* __validateIncludePathsOption and __validateLinkerScriptOption.          *)

MaxIncludes == 2   \* listOptionValue entries of one include-paths option

Finding(code, what, path) == [code |-> code, what |-> what, path |-> path]

\* The ancestors of p that are in the namespace only when case is ignored
CaseOnlyAncestors(p) ==
    {a \in Ancestors(p) : lower(a) \in lc_names /\ a \notin names}

\* A look-up that walks up from a path that is nowhere in the namespace and
\* reports the topmost ancestor whose case differs
LookUp_AncestorWalk(p, wrongCaseCode, missingCode) ==
    IF p \in names THEN <<>>
    ELSE IF lower(p) \in lc_names
         THEN <<Finding(wrongCaseCode, "wrongCase", p)>>
    ELSE IF CaseOnlyAncestors(p) # {}
         THEN <<Finding(wrongCaseCode, "wrongCase",
                        CHOOSE a \in CaseOnlyAncestors(p) :
                            \A b \in CaseOnlyAncestors(p) : Len(a) <= Len(b))>>
         ELSE <<Finding(missingCode, "missing", p)>>

\* "if x not in self.names: if x.lower() in self.lc_names: ... else: ..."
\* as written at each of the four places that look a resolved path up
LookUp(p, wrongCaseCode, missingCode) ==
    IF p \in names THEN <<>>
    ELSE IF lower(p) \in lc_names
         THEN <<Finding(wrongCaseCode, "wrongCase", p)>>
         ELSE <<Finding(missingCode, "missing", p)>>

\* The walk looks at the parents of the destination only
RECURSIVE HidingWalk_ParentsOnly(_, _)
HidingWalk_ParentsOnly(p, cache) ==
    IF p \in cache THEN [hit |-> <<>>, cache |-> cache]
    ELSE IF p = <<>> \/ p = <<Slash>> THEN [hit |-> <<>>, cache |-> cache]
    ELSE IF lower(getParentDirectory(p)) \in lc_names /\ getParentDirectory(p) \notin names
         THEN [hit |-> <<Finding("ER051", "hides", getParentDirectory(p))>>, cache |-> cache \cup {p}]
    ELSE HidingWalk_ParentsOnly(getParentDirectory(p), cache \cup {p})

\* lines 988-1006 and 1028-1047: the walk from the link's place in the project
\* up to the root; [hit: the finding or none, cache: the cache afterwards]
RECURSIVE HidingWalk(_, _)
HidingWalk(p, cache) ==
    IF p \in cache THEN [hit |-> <<>>, cache |-> cache]
    ELSE IF lower(p) \in lc_names /\ p \notin names
         THEN [hit |-> <<Finding("ER051", "hides", p)>>, cache |-> cache]
    ELSE IF p = <<>> \/ p = <<Slash>> THEN [hit |-> <<>>, cache |-> cache]
    ELSE HidingWalk(getParentDirectory(p), cache \cup {p})

\* One look-up: the resolved path and what was reported for it
Looked(p, found) == [path |-> p, found |-> found]

Outcome(findings, looked, cache, raised) ==
    [findings |-> findings, looked |-> looked, cache |-> cache, raised |-> raised]

\* Main.validateFileLink; resolveLink raises on a missing source and
\* myPathJoin on a missing name, the latter after the source was reported
validateFileLink(pr, src, dest, cache) ==
    IF resolveLink(pr, src) = Raise THEN Outcome(<<>>, <<>>, cache, TRUE)
    ELSE LET resolved == resolveLink(pr, src)
             found == LookUp(resolved, "ER049", "ER050")
         IN  IF dest = NoneV THEN Outcome(found, <<Looked(resolved, found)>>, cache, TRUE)
             ELSE LET w == HidingWalk(myPathJoin(pr, dest), cache)
                  IN  Outcome(found \o w.hit, <<Looked(resolved, found)>>, w.cache, FALSE)

VirtualUri == <<"v", "i", "r", "t", "u", "a", "l", ":", "/", "v", "i", "r", "t", "u", "a", "l">>

\* Main.validateDirLink
validateDirLink(pr, src, dest, cache) ==
    IF src # VirtualUri /\ resolveLink(pr, src) = Raise
    THEN Outcome(<<>>, <<>>, cache, TRUE)
    ELSE LET resolved == appendSlashIfMissing(resolveLink(pr, src))
             found == IF src # VirtualUri THEN LookUp(resolved, "ER049", "ER050") ELSE <<>>
             looked == IF src # VirtualUri THEN <<Looked(resolved, found)>> ELSE <<>>
         IN  IF dest = NoneV THEN Outcome(found, looked, cache, TRUE)
             ELSE LET w == HidingWalk(appendSlashIfMissing(myPathJoin(pr, dest)), cache)
                  IN  Outcome(found \o w.hit, looked, w.cache, FALSE)

\* lines 907-931, one listOptionValue.  The messages of lines 912 and 919 have
\* one placeholder more than arguments: str.format raises IndexError before
\* anything is reported.
includePathEntry(pr, build_path, value) ==
    IF value = <<>> THEN Outcome(<<>>, <<>>, {}, TRUE)
    ELSE IF resolve(pr, build_path, value) = Raise THEN Outcome(<<>>, <<>>, {}, TRUE)
    ELSE IF resolve(pr, build_path, value) = NoneV THEN Outcome(<<>>, <<>>, {}, TRUE)
    ELSE LET resolved == appendSlashIfMissing(resolve(pr, build_path, value))
             found == LookUp(resolved, "ER047", "ER048")
         IN  Outcome(found, <<Looked(resolved, found)>>, {}, FALSE)

\* Main.__validateIncludePathsOption: the entries in order, up to a raise
RECURSIVE validateIncludePathsOption(_, _, _)
validateIncludePathsOption(pr, build_path, values) ==
    IF values = <<>> THEN Outcome(<<>>, <<>>, {}, FALSE)
    ELSE LET first == includePathEntry(pr, build_path, Head(values))
             others == validateIncludePathsOption(pr, build_path, Tail(values))
         IN  IF first.raised THEN first
             ELSE Outcome(first.findings \o others.findings,
                          first.looked \o others.looked, {}, others.raised)

\* Main.__validateLinkerScriptOption; the message of line 944 has one
\* placeholder more than arguments, too
validateLinkerScriptOption(pr, build_path, value) ==
    IF resolve(pr, build_path, value) = Raise THEN Outcome(<<>>, <<>>, {}, TRUE)
    ELSE IF resolve(pr, build_path, value) = NoneV THEN Outcome(<<>>, <<>>, {}, TRUE)
    ELSE LET resolved == resolve(pr, build_path, value)
             found == LookUp(resolved, "ER050", "ER051")
         IN  Outcome(found, <<Looked(resolved, found)>>, {}, FALSE)

\* lines 142-146 as a function: the directories Archive.__init__ adds for tmp
RECURSIVE ParentKeys(_)
ParentKeys(t) ==
    IF t = <<Slash>> THEN {}
    ELSE {appendSlashIfMissing(getParentDirectory(t))} \cup ParentKeys(getParentDirectory(t))

\* Main.names of one zip archive with these stored names
NamespaceOf(stored) ==
    UNION {{AbsoluteName(x)} \cup ParentKeys(AbsoluteName(x)) : x \in stored}

DotProject == <<".", "p", "r", "o", "j", "e", "c", "t">>
IocSuffix == <<".", "i", "o", "c">>

\* line 327: the .ioc files directly in the parent directory of the project
iocFilesOf(pr) ==
    LET parent == appendSlashIfMissing(getParentDirectory(pr))
    IN  {x \in names : /\ StartsWith(x, parent) /\ x # parent
                       /\ Slash \notin {x[i] : i \in (Len(parent) + 1)..(Len(x) - 1)}
                       /\ EndsWith(x, IocSuffix)}

StoredSets == {
    {<<"P", "/", ".", "p", "r", "o", "j", "e", "c", "t">>, <<"P", "/", "S", "/", "m", ".", "c">>, <<"I", "/", "g">>, <<"x", ".", "i", "o", "c">>},
    {<<"P", "/", ".", "p", "r", "o", "j", "e", "c", "t">>, <<"I", "/", "g">>, <<"i", "/", "f">>},
    {<<"P", "/", ".", "p", "r", "o", "j", "e", "c", "t">>, <<"I", "/", "D", "/", "g">>, <<"y", "/", "x", ".", "i", "o", "c">>} }

RefProject == <<"/", "P", "/">>
RefBuildPath == myPathJoin(RefProject, ConfigDebug)

LinkSources == { NoneV, VirtualUri, <<"P", "A", "R", "E", "N", "T", "-", "1", "-", "P", "R", "O", "J", "E", "C", "T", "_", "L", "O", "C", "/", "x">>,
    <<"P", "A", "R", "E", "N", "T", "-", "1", "-", "P", "R", "O", "J", "E", "C", "T", "_", "L", "O", "C", "/", "I", "/", "g">>, <<"P", "A", "R", "E", "N", "T", "-", "1", "-", "P", "R", "O", "J", "E", "C", "T", "_", "L", "O", "C", "/", "i", "/", "g">>, <<"P", "A", "R", "E", "N", "T", "-", "1", "-", "P", "R", "O", "J", "E", "C", "T", "_", "L", "O", "C", "/", "i", "/", "f">>, <<"P", "A", "R", "E", "N", "T", "-", "1", "-", "P", "R", "O", "J", "E", "C", "T", "_", "L", "O", "C", "/", "i", "/", "d", "/", "g">>, <<"P", "A", "R", "E", "N", "T", "-", "1", "-", "P", "R", "O", "J", "E", "C", "T", "_", "L", "O", "C", "/", "x", ".", "i", "o", "c">>, <<"P", "A", "R", "E", "N", "T", "-", "1", "-", "P", "R", "O", "J", "E", "C", "T", "_", "L", "O", "C", "/", "I">>, <<"$", "%", "7", "B", "P", "A", "R", "E", "N", "T", "-", "1", "-", "P", "R", "O", "J", "E", "C", "T", "_", "L", "O", "C", "%", "7", "D", "/", "i">> }

LinkNames == { NoneV, <<"s", "/", "m", ".", "c">>, <<"S", "/", "x">>, <<"s", "/", "y">> }

LinkTypes == { NoneV, <<"1">>, <<"2">>, <<"3">> }

LinkNodes == [type : LinkTypes, name : LinkNames, src : LinkSources]

OptionValues == { NoneV, <<>>,
    <<".", ".", "/", ".", ".", "/", "I", "/", "g">>, <<".", ".", "/", ".", ".", "/", "i", "/", "g">>, <<".", ".", "/", ".", ".", "/", "i", "/", "f">>,
    <<"\"", ".", ".", "/", ".", ".", "/", "i", "/", "d", "\"">>,
    <<"$", "{", "w", "o", "r", "k", "s", "p", "a", "c", "e", "_", "l", "o", "c", ":", "/", "$", "{", "P", "r", "o", "j", "N", "a", "m", "e", "}", "/", "S", "/", "m", ".", "c", "}">>,
    <<"$", "{", "w", "o", "r", "k", "s", "p", "a", "c", "e", "_", "l", "o", "c", ":", "/", "O", "/", "a", "}">> }

RefInit ==
    /\ \E stored \in StoredSets :
          /\ names = NamespaceOf(stored)
          /\ lc_names = {lower(x) : x \in NamespaceOf(stored)}
    /\ project = RefProject
    /\ iocFiles = iocFilesOf(RefProject)
    /\ link_validation_cache = {}
    /\ out = <<>>
    /\ checked = <<>>
    /\ lastOp = [op |-> "none", done |-> TRUE]
    /\ lstatus = "links"
    /\ unlinked = iocFilesOf(RefProject)

\* x lies in the directory dir or deeper
Beneath(x, dir) == StartsWith(x, appendSlashIfMissing(dir)) /\ x # appendSlashIfMissing(dir)

\* lines 348-355: the next <link> node of .project is read
ReadLink ==
    /\ lstatus = "links"
    /\ lastOp.op = "none"
    /\ \E link \in LinkNodes : lastOp' = [op |-> "link", link |-> link, done |-> FALSE]
    /\ out' = <<>>
    /\ checked' = <<>>
    /\ UNCHANGED <<project, iocFiles, link_validation_cache, lstatus, names, lc_names, unlinked>>
    /\ UNCHANGED notRef

\* lines 357-376: the node is validated
LinkNode ==
    /\ lstatus = "links"
    /\ lastOp.op = "link" /\ ~lastOp.done
    /\ lastOp' = [lastOp EXCEPT !.done = TRUE]
    /\ LET link == lastOp.link
       IN  IF link.src = NoneV /\ link.name = NoneV /\ link.type = NoneV
           THEN /\ out' = <<Finding("ER008", "emptyLink", myPathJoin(project, DotProject))>>
                /\ checked' = <<>>
                /\ UNCHANGED <<iocFiles, link_validation_cache, lstatus, unlinked>>
           ELSE IF link.type = <<"1">>
           THEN LET r == validateFileLink(project, link.src, link.name, link_validation_cache)
                IN  /\ out' = r.findings
                    /\ checked' = r.looked
                    /\ link_validation_cache' = r.cache
                    /\ lstatus' = IF r.raised THEN "raised" ELSE lstatus
                    /\ iocFiles' = IF r.raised THEN iocFiles
                                   ELSE iocFiles \ {resolveLink(project, link.src)}
                    /\ unlinked' = IF r.raised THEN unlinked
                                   ELSE unlinked \ {resolveLink(project, link.src)}
           ELSE IF link.type = <<"2">>
           THEN LET r == validateDirLink(project, link.src, link.name, link_validation_cache)
                IN  /\ out' = r.findings
                    /\ checked' = r.looked
                    /\ link_validation_cache' = r.cache
                    /\ lstatus' = IF r.raised THEN "raised" ELSE lstatus
                    /\ iocFiles' = IF r.raised \/ link.src = VirtualUri THEN iocFiles
                                   ELSE {x \in iocFiles :
                                           ~StartsWith(x, resolveLink(project, link.src))}
                    /\ unlinked' = IF r.raised \/ link.src = VirtualUri THEN unlinked
                                   ELSE {x \in unlinked :
                                           ~Beneath(x, resolveLink(project, link.src))}
           ELSE /\ out' = <<Finding("ER005", "linkType", link.type)>>
                /\ checked' = <<>>
                /\ UNCHANGED <<iocFiles, link_validation_cache, lstatus, unlinked>>
    /\ UNCHANGED <<project, names, lc_names>>
    /\ UNCHANGED notRef

\* lines 379-382: the .ioc files no link accounts for
FinishLinks ==
    /\ lstatus = "links"
    /\ lastOp.op = "none"
    /\ lastOp' = [op |-> "finishLinks", done |-> TRUE]
    /\ out' = IF iocFiles # {} THEN <<Finding("ER006", "iocNotLinked", iocFiles)>> ELSE <<>>
    /\ checked' = <<>>
    /\ lstatus' = "options"
    /\ UNCHANGED <<project, iocFiles, link_validation_cache, names, lc_names, unlinked>>
    /\ UNCHANGED notRef

\* lines 673-674: the next <option> of a build configuration is read
ReadOption ==
    /\ lstatus = "options"
    /\ lastOp.op \in {"none", "finishLinks"}
    /\ \/ \E n \in 1..MaxIncludes : \E values \in [1..n -> OptionValues] :
             lastOp' = [op |-> "include", values |-> values, done |-> FALSE]
       \/ \E value \in OptionValues :
             lastOp' = [op |-> "linker", value |-> value, done |-> FALSE]
    /\ out' = <<>>
    /\ checked' = <<>>
    /\ UNCHANGED <<project, iocFiles, link_validation_cache, lstatus, names, lc_names, unlinked>>
    /\ UNCHANGED notRef

\* an include-paths option is validated
IncludePathsOption ==
    /\ lstatus = "options"
    /\ lastOp.op = "include" /\ ~lastOp.done
    /\ lastOp' = [lastOp EXCEPT !.done = TRUE]
    /\ LET r == validateIncludePathsOption(project, RefBuildPath, lastOp.values)
       IN  /\ out' = r.findings
           /\ checked' = r.looked
           /\ lstatus' = IF r.raised THEN "raised" ELSE lstatus
    /\ UNCHANGED <<project, iocFiles, link_validation_cache, names, lc_names, unlinked>>
    /\ UNCHANGED notRef

\* a linker-script option is validated
LinkerScriptOption ==
    /\ lstatus = "options"
    /\ lastOp.op = "linker" /\ ~lastOp.done
    /\ lastOp' = [lastOp EXCEPT !.done = TRUE]
    /\ LET r == validateLinkerScriptOption(project, RefBuildPath, lastOp.value)
       IN  /\ out' = r.findings
           /\ checked' = r.looked
           /\ lstatus' = IF r.raised THEN "raised" ELSE lstatus
    /\ UNCHANGED <<project, iocFiles, link_validation_cache, names, lc_names, unlinked>>
    /\ UNCHANGED notRef

\* The loop over the nodes (line 348, line 673) moves on: what the last node
\* printed is no longer looked at
NextNode ==
    /\ lstatus \in {"links", "options"}
    /\ lastOp.op \in {"link", "include", "linker"}
    /\ lastOp.done
    /\ lastOp' = [op |-> "none", done |-> TRUE]
    /\ out' = <<>>
    /\ checked' = <<>>
    /\ UNCHANGED <<project, iocFiles, link_validation_cache, lstatus, names, lc_names, unlinked>>
    /\ UNCHANGED notRef

RefNext ==
    \/ ReadLink \/ LinkNode \/ FinishLinks
    \/ ReadOption \/ IncludePathsOption \/ LinkerScriptOption
    \/ NextNode

-----------------------------------------------------------------------------
(* Properties of the references of a project (SpecRef) *)

Reported(f) == \E i \in 1..Len(out) : out[i] = f

\* The look-ups of the node just validated whose path is nowhere in the
\* namespace, in any case, while an ancestor is there in another case
AncestorCaseLookUps ==
    {i \in 1..Len(checked) :
        /\ checked[i].path \notin names
        /\ lower(checked[i].path) \notin lc_names
        /\ CaseOnlyAncestors(checked[i].path) # {}}

C10_ResolverNeverRaises == lstatus # "raised"

\* C13: when the links of the project have all been processed, the finding
\* "IOC files not referenced" is printed exactly when some .ioc file directly
\* in the parent directory of the project is neither the target of a file link
\* nor beneath the target of a directory link.
C13_IocNotLinkedIff ==
    lastOp.op = "finishLinks" =>
        ((\E i \in 1..Len(out) : out[i].what = "iocNotLinked") <=> unlinked # {})

\* The entries of the build option just validated
OptionEntries ==
    IF lastOp.op = "include" THEN lastOp.values
    ELSE IF lastOp.op = "linker" THEN <<lastOp.value>>
    ELSE <<>>

\* The outcome the three-way rule names for one entry: "none" for a path that
\* is in the namespace, else the kind of the one finding
EntryOutcome(value) ==
    IF unverifiableMatch(value) /\ ~wsMatch(value) THEN "unverifiable"
    ELSE LET r == resolve(project, RefBuildPath, value)
             resolved == IF lastOp.op = "include" THEN appendSlashIfMissing(r) ELSE r
         IN  IF resolved \in names THEN "none"
             ELSE IF lower(resolved) \in lc_names THEN "wrongCase"
             ELSE "missing"

IsFindingKind(k) == k # "none"

\* C11: after an include-paths or linker-script option whose entries are all
\* non-empty values, every entry has produced exactly one outcome, in order:
\* nothing for a path in the namespace, else one finding that is
\* "unverifiable", "wrongCase" or "missing"; and the validation has gone on.
C11_OneOutcomePerEntry ==
    (/\ lastOp.op \in {"include", "linker"} /\ lastOp.done
     /\ \A i \in 1..Len(OptionEntries) : IsStr(OptionEntries[i]) /\ OptionEntries[i] # <<>>)
    => /\ lstatus # "raised"
       /\ [i \in 1..Len(out) |-> out[i].what]
             = SelectSeq([i \in 1..Len(OptionEntries) |-> EntryOutcome(OptionEntries[i])],
                         IsFindingKind)

-----------------------------------------------------------------------------
(* The run: the loops of __main__ and, of a sub-project's validation, the  *)
(* part that decides how the run goes on: the early returns of             *)
(* validateEclipseProject and the MCU of validateCubeIDEProject.           *)

MaxProjects == 2       \* entries of proj_list
MaxSubprojects == 1    \* entries of list_subproj of one project
MaxScripts == 1        \* entries of list_scripts

\* The members of the enumeration McuFamily
McuFamily == {
    <<"S", "T", "M", "3", "2", "C", "0">>,
    <<"S", "T", "M", "3", "2", "F", "0">>,
    <<"S", "T", "M", "3", "2", "F", "1">>,
    <<"S", "T", "M", "3", "2", "F", "2">>,
    <<"S", "T", "M", "3", "2", "F", "3">>,
    <<"S", "T", "M", "3", "2", "F", "4">>,
    <<"S", "T", "M", "3", "2", "F", "7">>,
    <<"S", "T", "M", "3", "2", "L", "0">>,
    <<"S", "T", "M", "3", "2", "L", "1">>,
    <<"S", "T", "M", "3", "2", "L", "4">>,
    <<"S", "T", "M", "3", "2", "L", "5">>,
    <<"S", "T", "M", "3", "2", "H", "7">>,
    <<"S", "T", "M", "3", "2", "H", "5">>,
    <<"S", "T", "M", "3", "2", "W", "B">>,
    <<"S", "T", "M", "3", "2", "W", "B", "A">>,
    <<"S", "T", "M", "3", "2", "W", "L">>,
    <<"S", "T", "M", "3", "2", "G", "0">>,
    <<"S", "T", "M", "3", "2", "G", "K">>,
    <<"S", "T", "M", "3", "2", "G", "4">>,
    <<"S", "T", "M", "3", "2", "M", "P", "1">>,
    <<"S", "T", "M", "3", "2", "M", "P", "1", "3">>,
    <<"S", "T", "M", "3", "2", "M", "P", "2">>,
    <<"S", "T", "M", "3", "2", "U", "0">>,
    <<"S", "T", "M", "3", "2", "U", "5">>,
    <<"S", "T", "M", "3", "2", "N", "6">> }

\* toMcuFamily: the member with the longest name that mcuName starts with
toMcuFamily(mcuName) ==
    LET items == {name \in McuFamily : StartsWith(mcuName, name)}
    IN  IF items = {} THEN Raise
        ELSE CHOOSE name \in items : \A other \in items : Len(other) <= Len(name)

Result(findings, valid, exception) ==
    [findings |-> findings, valid |-> valid, exception |-> exception]

\* Main.validateCubeIDEProject up to line 488, and what the rest of it prints.
\* sp.first is the MCU that next(iter(mcus)) yields.
validateCubeIDEProject(at, sp) ==
    LET mcus == IF sp.mcus # {} THEN sp.mcus ELSE sp.childMcus
        noMcu == IF mcus = {} THEN <<Finding("ER012", "noMcu", at)>> ELSE <<>>
        several == IF Cardinality(mcus) # 1 THEN <<Finding("ER013", "severalMcus", at)>> ELSE <<>>
        rest == [i \in 1..Len(sp.rest) |-> Finding(sp.rest[i], "cubeide", at)]
    IN  IF mcus = {} THEN Result(noMcu, FALSE, "StopIteration")
        ELSE IF toMcuFamily(sp.first) = Raise THEN Result(noMcu, FALSE, "LookupError")
        ELSE Result(noMcu \o several \o rest, noMcu \o several \o rest = <<>>, "none")

\* Main.validateEclipseProject: the early returns, the findings of the .ioc
\* and link checks (sp.basic), then the STM32CubeIDE validation
validateEclipseProject(at, sp) ==
    IF sp.early # "none" THEN Result(<<Finding(sp.early, "subproject", at)>>, FALSE, "none")
    ELSE LET basic == [i \in 1..Len(sp.basic) |-> Finding(sp.basic[i], "basic", at)]
         IN  IF ~sp.cube THEN Result(basic, basic = <<>>, "none")
             ELSE LET c == validateCubeIDEProject(at, sp)
                  IN  Result(basic \o c.findings, basic = <<>> /\ c.valid, c.exception)

\* Main.validateScript by what it returns; on a file whose bytes do not decode
\* getFileContent gives None and re.split raises TypeError
validateScript(at, kind) ==
    IF kind = "undecodable" THEN Result(<<>>, FALSE, "TypeError")
    ELSE IF kind = "invalid" THEN Result(<<Finding("ER039", "script", at)>>, FALSE, "none")
    ELSE Result(<<>>, TRUE, "none")

H743 == <<"S", "T", "M", "3", "2", "H", "7", "4", "3", "Z", "I", "T", "x">>
WBA52 == <<"S", "T", "M", "3", "2", "W", "B", "A", "5", "2", "C", "G", "U", "x">>
UnknownMcu == <<"S", "T", "M", "3", "2", "X", "1">>

Subproject(early, basic, cube, mcus, childMcus, rest) ==
    [early |-> early, basic |-> basic, cube |-> cube, mcus |-> mcus,
     childMcus |-> childMcus, rest |-> rest]

\* The sub-projects the run is tried on
Subprojects == {
    Subproject("ER001", <<>>, FALSE, {}, {}, <<>>),
    Subproject("ER002", <<>>, TRUE, {}, {}, <<>>),
    Subproject("none", <<>>, FALSE, {}, {}, <<>>),
    Subproject("none", <<"ER006">>, FALSE, {}, {}, <<>>),
    Subproject("none", <<>>, TRUE, {H743}, {}, <<>>),
    Subproject("none", <<>>, TRUE, {}, {WBA52}, <<>>),
    Subproject("none", <<>>, TRUE, {}, {}, <<>>),
    Subproject("none", <<>>, TRUE, {UnknownMcu}, {}, <<>>),
    Subproject("none", <<>>, TRUE, {H743, WBA52}, {}, <<>>),
    Subproject("none", <<>>, TRUE, {H743, UnknownMcu}, {}, <<>>),
    Subproject("none", <<"ER006">>, TRUE, {H743}, {}, <<"ER014">>) }

\* What next(iter(mcus)) may yield for the sub-project
FirstMcus(sp) ==
    LET mcus == IF sp.mcus # {} THEN sp.mcus ELSE sp.childMcus
    IN  IF mcus = {} THEN {NoneV} ELSE mcus

ScriptKinds == {"valid", "invalid", "undecodable"}

\* lines 1139-1147
RunInit ==
    /\ phase = "projects"
    /\ total_projects = 0 /\ failed_proj = 0 /\ listof_failed_projects = <<>>
    /\ list_subproj = 0 /\ subproj = NoneV /\ failed_subproj = 0
    /\ total_scripts = 0 /\ failed_scripts = 0 /\ listof_failed_scripts = <<>>
    /\ printed = <<>> /\ verdict = "none" /\ uncaught = "none" /\ exitCode = -1

\* lines 1156-1165: the next project of proj_list
NextProject ==
    /\ phase = "projects"
    /\ total_projects < MaxProjects
    /\ total_projects' = total_projects + 1
    /\ \E isEclipseBasedIde \in BOOLEAN :
          IF ~isEclipseBasedIde
          THEN /\ printed' = Append(printed, Finding("ER100", "project", <<total_projects + 1>>))
               /\ failed_proj' = failed_proj + 1
               /\ listof_failed_projects' = Append(listof_failed_projects, total_projects + 1)
               /\ UNCHANGED <<phase, list_subproj>>
          ELSE /\ \E n \in 0..MaxSubprojects :
                     /\ list_subproj' = n
                     /\ phase' = IF n = 0 THEN "projects" ELSE "subproject"
               /\ UNCHANGED <<printed, failed_proj, listof_failed_projects>>
    /\ UNCHANGED <<subproj, failed_subproj, total_scripts, failed_scripts,
                   listof_failed_scripts, verdict, uncaught, exitCode>>
    /\ UNCHANGED notRun

\* lines 1166-1168: the next sub-project and its first validation
ValidateSubproject ==
    /\ phase = "subproject"
    /\ \E sp \in Subprojects : \E first \in FirstMcus(sp) :
          LET r == validateEclipseProject(<<total_projects, list_subproj>>,
                                          sp @@ [first |-> first])
          IN  /\ subproj' = sp @@ [first |-> first]
              /\ printed' = printed \o r.findings
              /\ IF r.exception # "none"
                 THEN /\ phase' = "aborted"
                      /\ uncaught' = r.exception
                      /\ exitCode' = 1
                      /\ UNCHANGED failed_subproj
                 ELSE /\ phase' = "again"
                      /\ failed_subproj' = IF r.valid THEN failed_subproj ELSE failed_subproj + 1
                      /\ UNCHANGED <<uncaught, exitCode>>
    /\ UNCHANGED <<total_projects, failed_proj, listof_failed_projects, list_subproj,
                   total_scripts, failed_scripts, listof_failed_scripts, verdict>>
    /\ UNCHANGED notRun

\* line 1169: the same sub-project is validated once more for the debug line
ValidateSubprojectAgain ==
    /\ phase = "again"
    /\ LET r == validateEclipseProject(<<total_projects, list_subproj>>, subproj)
       IN  /\ printed' = printed \o r.findings
           /\ IF r.exception # "none"
              THEN /\ phase' = "aborted"
                   /\ uncaught' = r.exception
                   /\ exitCode' = 1
                   /\ UNCHANGED list_subproj
              ELSE /\ list_subproj' = list_subproj - 1
                   /\ phase' = IF list_subproj = 1 THEN "projects" ELSE "subproject"
                   /\ UNCHANGED <<uncaught, exitCode>>
    /\ UNCHANGED <<total_projects, failed_proj, listof_failed_projects, subproj,
                   failed_subproj, total_scripts, failed_scripts, listof_failed_scripts,
                   verdict>>
    /\ UNCHANGED notRun

\* lines 1172-1178: proj_list is exhausted, the scripts are listed
ListScripts ==
    /\ phase = "projects"
    /\ phase' = "scripts"
    /\ UNCHANGED <<total_projects, failed_proj, listof_failed_projects, list_subproj,
                   subproj, failed_subproj, total_scripts, failed_scripts,
                   listof_failed_scripts, printed, verdict, uncaught, exitCode>>
    /\ UNCHANGED notRun

\* lines 1181-1188: the next script of list_scripts
ValidateScript ==
    /\ phase = "scripts"
    /\ total_scripts < MaxScripts
    /\ total_scripts' = total_scripts + 1
    /\ \E kind \in ScriptKinds :
          LET r == validateScript(<<total_scripts + 1>>, kind)
          IN  /\ printed' = printed \o r.findings
              /\ IF r.exception # "none"
                 THEN /\ phase' = "aborted"
                      /\ uncaught' = r.exception
                      /\ exitCode' = 1
                      /\ UNCHANGED <<failed_scripts, listof_failed_scripts>>
                 ELSE /\ failed_scripts' = IF r.valid THEN failed_scripts ELSE failed_scripts + 1
                      /\ listof_failed_scripts' =
                            IF r.valid THEN listof_failed_scripts
                            ELSE Append(listof_failed_scripts, total_scripts + 1)
                      /\ UNCHANGED <<phase, uncaught, exitCode>>
    /\ UNCHANGED <<total_projects, failed_proj, listof_failed_projects, list_subproj,
                   subproj, failed_subproj, verdict>>
    /\ UNCHANGED notRun

\* lines 1190-1245: the summary, the reports, and the end of the process;
\* nothing sets an exit status
Summary ==
    /\ phase = "scripts"
    /\ verdict' = IF Len(listof_failed_scripts) # 0 \/ Len(listof_failed_projects) # 0
                  THEN "FAILED" ELSE "SUCCESSFUL"
    /\ phase' = "done"
    /\ exitCode' = 0
    /\ UNCHANGED <<total_projects, failed_proj, listof_failed_projects, list_subproj,
                   subproj, failed_subproj, total_scripts, failed_scripts,
                   listof_failed_scripts, printed, uncaught>>
    /\ UNCHANGED notRun

RunNext ==
    \/ NextProject \/ ValidateSubproject \/ ValidateSubprojectAgain
    \/ ListScripts \/ ValidateScript \/ Summary

-----------------------------------------------------------------------------
(* Properties of the run (SpecRun) *)

\* C1: a project for which no MCU can be determined, or whose MCU is of no
\* known family, never ends the run: no exception of validateCubeIDEProject
\* leaves the main loop.
C1_RunNeverAborts == uncaught \notin {"StopIteration", "LookupError"}

\* C2: when the run has ended, it has reported failure (failed verdict and
\* non-zero exit status) exactly when at least one finding was printed.
C2_FailureIffFinding ==
    phase = "done" => ((verdict = "FAILED" /\ exitCode # 0) <=> printed # <<>>)

-----------------------------------------------------------------------------
(* One STM32CubeIDE project: the descriptor checks of                      *)
(* validateEclipseProject and Main.validateCubeIDEProject, step by step.   *)

MaxChildren == 3   \* directories below a root project
MaxConfigs == 3    \* <configuration> nodes of .cproject
MaxOptions == 2    \* <option> nodes of one configuration

MCURootProjectNature == "com.st.stm32cube.ide.mcu.MCURootProjectNature"
MCUEndUserDisabledTrustZoneProjectNature == "com.st.stm32cube.ide.mcu.MCUEndUserDisabledTrustZoneProjectNature"
MCUSecureProjectNature == "com.st.stm32cube.ide.mcu.MCUSecureProjectNature"
MCUNonSecureProjectNature == "com.st.stm32cube.ide.mcu.MCUNonSecureProjectNature"
MCUMultiCpuProjectNature == "com.st.stm32cube.ide.mcu.MCUMultiCpuProjectNature"
cnature == "org.eclipse.cdt.core.cnature"
ccnature == "org.eclipse.cdt.core.ccnature"

STM32L5 == <<"S", "T", "M", "3", "2", "L", "5">>
STM32U5 == <<"S", "T", "M", "3", "2", "U", "5">>
STM32H7 == <<"S", "T", "M", "3", "2", "H", "7">>
TrustZoneFamilies == {STM32L5, STM32U5}

L552 == <<"S", "T", "M", "3", "2", "L", "5", "5", "2", "Z", "E", "T", "x", "Q">>
L562 == <<"S", "T", "M", "3", "2", "L", "5", "6", "2", "Q", "E", "I", "x", "Q">>
U585 == <<"S", "T", "M", "3", "2", "U", "5", "8", "5", "A", "I", "I", "x">>

STM32CubeIDE == <<"S", "T", "M", "3", "2", "C", "u", "b", "e", "I", "D", "E">>
SecureSuffix == <<"_", "S", "e", "c", "u", "r", "e">>
NonSecureSuffix == <<"_", "N", "o", "n", "S", "e", "c", "u", "r", "e">>

\* str.replace: every occurrence of old, left to right, none overlapping
RECURSIVE Replace(_, _, _)
Replace(str, old, new) ==
    IF Len(str) < Len(old) \/ old = <<>> THEN str
    ELSE IF StartsWith(str, old) THEN new \o Replace(DropFirst(str, Len(old)), old, new)
    ELSE <<Head(str)>> \o Replace(Tail(str), old, new)

CubeProject(dotProject, cproject, natures, projectName, dir, mcus, childMcus, pedantic) ==
    [dotProject |-> dotProject, cproject |-> cproject, natures |-> natures,
     projectName |-> projectName, dirname |-> dir, mcus |-> mcus,
     childMcus |-> childMcus, pedantic |-> pedantic]

\* The projects the validation is tried on.  dotProject and cproject say what
\* __getDOM finds: "ok" a document, "absent" no content, "malformed" content
\* that ET.fromstring rejects.
CubeProjects == {
    CubeProject("absent", "ok", {cnature}, <<"R">>, STM32CubeIDE, {H743}, {}, FALSE),
    CubeProject("malformed", "ok", {cnature}, <<"R">>, STM32CubeIDE, {H743}, {}, FALSE),
    CubeProject("ok", "malformed", {cnature}, <<"R">>, STM32CubeIDE, {}, {}, FALSE),
    CubeProject("ok", "absent", {MCURootProjectNature}, <<"R">>, STM32CubeIDE, {}, {L552}, FALSE),
    CubeProject("ok", "absent", {MCURootProjectNature}, <<"R">>, STM32CubeIDE, {}, {L552, L562}, FALSE),
    CubeProject("ok", "absent", {MCURootProjectNature, MCUEndUserDisabledTrustZoneProjectNature},
                <<"R">>, <<"R">>, {}, {U585}, FALSE),
    CubeProject("ok", "absent", {MCURootProjectNature, cnature, ccnature}, <<"R">>, <<"X">>, {}, {U585}, FALSE),
    CubeProject("ok", "absent", {MCURootProjectNature}, <<"R">>, STM32CubeIDE, {}, {H743}, FALSE),
    CubeProject("ok", "ok", {MCURootProjectNature, cnature}, <<"R">>, STM32CubeIDE, {L552}, {}, FALSE),
    CubeProject("ok", "ok", {cnature, MCUNonSecureProjectNature}, <<"R", "_", "N", "o", "n", "S", "e", "c", "u", "r", "e">>, <<"N", "o", "n", "S", "e", "c", "u", "r", "e">>, {L552}, {}, FALSE),
    CubeProject("ok", "ok", {cnature, MCUNonSecureProjectNature}, <<"R", "_", "N", "o", "n", "S", "e", "c", "u", "r", "e">>, <<"N", "o", "n", "S", "e", "c", "u", "r", "e">>, {U585}, {}, TRUE),
    CubeProject("ok", "ok", {cnature, MCUNonSecureProjectNature}, <<"R", "_", "N", "S">>, <<"N", "o", "n", "S", "e", "c", "u", "r", "e">>, {L552}, {}, FALSE),
    CubeProject("ok", "ok", {cnature, MCUSecureProjectNature}, <<"R", "_", "S", "e", "c", "u", "r", "e">>, <<"S", "e", "c", "u", "r", "e">>, {U585}, {}, FALSE),
    CubeProject("ok", "ok", {cnature, MCUSecureProjectNature, MCUNonSecureProjectNature},
                <<"R", "_", "S", "e", "c", "u", "r", "e">>, <<"S", "e", "c", "u", "r", "e">>, {L552}, {}, FALSE),
    CubeProject("ok", "ok", {cnature, MCUNonSecureProjectNature, MCUEndUserDisabledTrustZoneProjectNature},
                <<"R">>, STM32CubeIDE, {L552}, {}, FALSE),
    CubeProject("ok", "ok", {cnature, MCUNonSecureProjectNature}, <<"R", "_", "N", "o", "n", "S", "e", "c", "u", "r", "e">>, <<"N", "o", "n", "S", "e", "c", "u", "r", "e">>, {L552, L562}, {}, FALSE),
    CubeProject("ok", "absent", {cnature, MCUNonSecureProjectNature}, <<"R", "_", "N", "o", "n", "S", "e", "c", "u", "r", "e">>, <<"N", "o", "n", "S", "e", "c", "u", "r", "e">>, {}, {L552}, FALSE),
    CubeProject("ok", "ok", {cnature, MCUMultiCpuProjectNature}, <<"R", "_", "C", "M", "7">>, <<"C", "M", "7">>, {H743}, {}, FALSE),
    CubeProject("ok", "ok", {cnature}, <<"R">>, <<"C", "M", "7">>, {H743}, {}, FALSE),
    CubeProject("ok", "ok", {cnature}, <<"R">>, STM32CubeIDE, {H743}, {}, TRUE),
    CubeProject("ok", "ok", {ccnature}, <<"R">>, STM32CubeIDE, {WBA52}, {}, FALSE),
    CubeProject("ok", "ok", {cnature}, <<"R">>, STM32CubeIDE, {}, {}, FALSE),
    CubeProject("ok", "absent", {cnature}, <<"R">>, STM32CubeIDE, {}, {}, FALSE),
    CubeProject("ok", "ok", {cnature}, <<"R">>, STM32CubeIDE, {UnknownMcu}, {}, FALSE),
    CubeProject("ok", "ok", {cnature}, <<"R">>, STM32CubeIDE, {H743, UnknownMcu}, {}, FALSE) }

\* line 306: validateEclipseProject is entered for the project
CubeInit ==
    /\ cpc = "eclipse"
    /\ cproj \in CubeProjects
    /\ mcuFamily = NoneV /\ cvalid = TRUE /\ cin = [step |-> "none"] /\ cout = <<>>
    /\ configsLeft = <<>> /\ configName = NoneV /\ optionsLeft = 0
    /\ libListed = {} /\ libReported = FALSE /\ cexc = "none"

\* What a step leaves alone of the configuration loop
CubeLoopUnchanged == UNCHANGED <<configsLeft, configName, optionsLeft, libListed, libReported>>

\* A step ends the validation with an exception
CubeRaise(exception, findings) ==
    /\ cpc' = "raised" /\ cexc' = exception /\ cout' = findings /\ cvalid' = FALSE

\* A step has printed findings and the validation goes on at next
CubeGo(next, findings) ==
    /\ cpc' = next /\ cout' = findings /\ UNCHANGED cexc
    /\ cvalid' = (cvalid /\ findings = <<>>)

\* A step returns from the validation
CubeReturn(findings, result) ==
    /\ cpc' = "returned" /\ cout' = findings /\ cvalid' = result /\ UNCHANGED cexc

\* lines 314-318 and 393-395: the DOM of .project; the checks of the linked
\* resources in between are the part modelled with ReadLink .. FinishLinks
EclipseProject ==
    /\ cpc = "eclipse"
    /\ cin' = [step |-> "eclipse", descriptor |-> cproj.dotProject]
    /\ IF cproj.dotProject = "malformed" THEN CubeRaise("ParseError", <<>>)
       ELSE IF cproj.dotProject = "absent"
            THEN CubeReturn(<<Finding("ER002", "dotProjectMissing", cproj.dirname)>>, FALSE)
       ELSE CubeGo("start", <<>>)
    /\ UNCHANGED <<cproj, mcuFamily>>
    /\ CubeLoopUnchanged
    /\ UNCHANGED notCube

\* lines 468-488: the MCU of the project
CubeStart ==
    /\ cpc = "start"
    /\ LET mcus == IF cproj.mcus # {} THEN cproj.mcus ELSE cproj.childMcus
           noMcu == IF mcus = {} THEN <<Finding("ER012", "noMcu", cproj.dirname)>> ELSE <<>>
           several == IF Cardinality(mcus) # 1
                      THEN <<Finding("ER013", "severalMcus", cproj.dirname)>> ELSE <<>>
       IN  IF cproj.cproject = "malformed"
           THEN /\ CubeRaise("ParseError", <<>>)
                /\ cin' = [step |-> "start", descriptor |-> "malformed"]
                /\ UNCHANGED mcuFamily
           ELSE IF mcus = {}
           THEN /\ CubeRaise("StopIteration", noMcu)
                /\ cin' = [step |-> "start", mcus |-> mcus]
                /\ UNCHANGED mcuFamily
           ELSE \E first \in mcus :
                   /\ cin' = [step |-> "start", mcus |-> mcus, first |-> first]
                   /\ IF toMcuFamily(first) = Raise
                      THEN CubeRaise("LookupError", <<>>) /\ UNCHANGED mcuFamily
                      ELSE /\ mcuFamily' = IF Cardinality(mcus) # 1 THEN NoneV
                                           ELSE toMcuFamily(first)
                           /\ CubeGo(IF MCURootProjectNature \in cproj.natures
                                     THEN "root" ELSE "leaf", several)
    /\ UNCHANGED cproj
    /\ CubeLoopUnchanged
    /\ UNCHANGED notCube

\* What getEclipseNatures gives for the directories below a root project:
\* [] for one that holds no project
ChildKinds == { {}, {cnature, MCUSecureProjectNature}, {cnature, MCUNonSecureProjectNature} }

ChildLists == UNION {[1..n -> ChildKinds] : n \in 0..MaxChildren}

\* The orders in which the elements of a set may be iterated
Orders(S) == {ord \in [1..Cardinality(S) -> S] : {ord[i] : i \in 1..Cardinality(S)} = S}

\* The non-secure child is looked for only when a secure one was found
trustZoneChildren_ElseIf(natures, family, children) ==
    IF family \in TrustZoneFamilies /\ MCUEndUserDisabledTrustZoneProjectNature \notin natures
    THEN LET hasSecureChild == \E i \in 1..Len(children) : MCUSecureProjectNature \in children[i]
             hasNonSecureChild == \E i \in 1..Len(children) : MCUNonSecureProjectNature \in children[i]
         IN  IF ~hasSecureChild THEN <<Finding("ER014", "secureMissing", children)>>
             ELSE IF ~hasNonSecureChild THEN <<Finding("ER015", "nonSecureMissing", children)>>
             ELSE <<>>
    ELSE <<>>

\* The secure child has to be the only one
trustZoneChildren_ExactlyOne(natures, family, children) ==
    IF family \in TrustZoneFamilies /\ MCUEndUserDisabledTrustZoneProjectNature \notin natures
    THEN LET secure == {i \in 1..Len(children) : MCUSecureProjectNature \in children[i]}
             hasNonSecureChild == \E i \in 1..Len(children) : MCUNonSecureProjectNature \in children[i]
         IN  (IF Cardinality(secure) # 1 THEN <<Finding("ER014", "secureMissing", children)>> ELSE <<>>)
             \o (IF ~hasNonSecureChild THEN <<Finding("ER015", "nonSecureMissing", children)>> ELSE <<>>)
    ELSE <<>>

\* lines 492-515: a root project of an STM32L5 or STM32U5 with TrustZone has
\* a secure and a non-secure project below it
trustZoneChildren(natures, family, children) ==
    IF family \in TrustZoneFamilies /\ MCUEndUserDisabledTrustZoneProjectNature \notin natures
    THEN LET hasSecureChild == \E i \in 1..Len(children) : MCUSecureProjectNature \in children[i]
             hasNonSecureChild == \E i \in 1..Len(children) : MCUNonSecureProjectNature \in children[i]
         IN  (IF ~hasSecureChild THEN <<Finding("ER014", "secureMissing", children)>> ELSE <<>>)
             \o (IF ~hasNonSecureChild THEN <<Finding("ER015", "nonSecureMissing", children)>> ELSE <<>>)
    ELSE <<>>

\* lines 490-532: a project with the root nature
RootProject ==
    /\ cpc = "root"
    /\ \E children \in ChildLists : \E ord \in Orders(cproj.natures \cap {cnature, ccnature}) :
          LET pairing == trustZoneChildren(cproj.natures, mcuFamily, children)
              naming == IF cproj.dirname # STM32CubeIDE /\ cproj.dirname # cproj.projectName
                        THEN <<Finding("ER016", "directoryName", cproj.dirname)>> ELSE <<>>
              hierarchical == [i \in 1..Len(ord) |-> Finding("ER017", "natureNotExpected", ord[i])]
          IN  /\ cin' = [step |-> "root", children |-> children]
              /\ IF cproj.cproject = "absent"
                 THEN CubeReturn(pairing \o naming \o hierarchical,
                                 cvalid /\ pairing \o naming \o hierarchical = <<>>)
                 ELSE CubeGo("leaf", pairing \o naming)
    /\ UNCHANGED <<cproj, mcuFamily>>
    /\ CubeLoopUnchanged
    /\ UNCHANGED notCube

\* lines 537-550: a C project with its sysmem.c files and its .cproject
LeafProject ==
    /\ cpc = "leaf"
    /\ \E sysmemOk \in BOOLEAN :
          LET nature == IF cnature \notin cproj.natures
                        THEN <<Finding("ER018", "cNatureExpected", cproj.dirname)>> ELSE <<>>
              sysmem == IF ~sysmemOk THEN <<Finding("ER035", "sysmem", cproj.dirname)>> ELSE <<>>
          IN  /\ cin' = [step |-> "leaf", sysmemOk |-> sysmemOk]
              /\ IF cproj.cproject = "absent"
                 THEN CubeReturn(nature \o sysmem
                                   \o <<Finding("ER011", "cprojectMissing", cproj.dirname)>>, FALSE)
                 ELSE CubeGo("family", nature \o sysmem)
    /\ UNCHANGED <<cproj, mcuFamily>>
    /\ CubeLoopUnchanged
    /\ UNCHANGED notCube

\* The project in the parent directory: its natures ([] when there is none)
\* and its name (None when there is none)
Parents == {
    [natures |-> {}, name |-> NoneV],
    [natures |-> {cnature}, name |-> <<"R">>],
    [natures |-> {MCURootProjectNature}, name |-> <<"R">>],
    [natures |-> {MCURootProjectNature}, name |-> <<"Q">>] }

\* What .project lists under projects/project
ProjectReferences == { {}, {<<"R", "_", "S", "e", "c", "u", "r", "e">>}, {<<"Q", "_", "S", "e", "c", "u", "r", "e">>, <<"R", "_", "N", "o", "n", "S", "e", "c", "u", "r", "e">>} }

Checked(findings, exception) == [findings |-> findings, exception |-> exception]

\* lines 553-570: sub-projects of an STM32H7
h7Checks(proj, parent) ==
    IF proj.dirname = STM32CubeIDE THEN <<>>
    ELSE (IF MCUMultiCpuProjectNature \notin proj.natures
          THEN <<Finding("ER019", "multiCpuNature", proj.dirname)>> ELSE <<>>)
         \o (IF /\ MCURootProjectNature \in parent.natures
                /\ proj.projectName # parent.name \o <<"_">> \o proj.dirname
             THEN <<Finding("ER020", "subProjectName", proj.projectName)>> ELSE <<>>)

\* The reference is looked for only below a root project
projectReference_BelowRootOnly(proj, parent, projectRefs) ==
    IF /\ MCURootProjectNature \in parent.natures
       /\ MCUNonSecureProjectNature \in proj.natures
       /\ parent.name \o SecureSuffix \notin projectRefs
    THEN <<Finding("ER024", "referenceMissing", parent.name \o SecureSuffix)>>
    ELSE <<>>

\* lines 597-604: a non-secure project refers to the secure one
projectReference(proj, parent, projectRefs) ==
    IF MCUNonSecureProjectNature \in proj.natures
       /\ parent.name \o SecureSuffix \notin projectRefs
    THEN <<Finding("ER024", "referenceMissing", parent.name \o SecureSuffix)>>
    ELSE <<>>

\* lines 572-604: sub-projects of an STM32L5 or STM32U5; None + "_Secure" is
\* a TypeError
trustZoneChecks(proj, parent, projectRefs) ==
    LET both == IF /\ MCUSecureProjectNature \in proj.natures
                   /\ MCUNonSecureProjectNature \in proj.natures
                THEN <<Finding("ER021", "secureAndNonSecure", proj.dirname)>> ELSE <<>>
        secureName ==
            IF /\ MCURootProjectNature \in parent.natures
               /\ MCUSecureProjectNature \in proj.natures
               /\ proj.projectName # parent.name \o SecureSuffix
            THEN <<Finding("ER022", "secureName", proj.projectName)>> ELSE <<>>
        nonSecureName ==
            IF /\ MCURootProjectNature \in parent.natures
               /\ MCUNonSecureProjectNature \in proj.natures
               /\ proj.projectName # parent.name \o NonSecureSuffix
            THEN <<Finding("ER023", "nonSecureName", proj.projectName)>> ELSE <<>>
    IN  IF MCUEndUserDisabledTrustZoneProjectNature \in proj.natures THEN Checked(both, "none")
        ELSE IF MCUNonSecureProjectNature \in proj.natures /\ parent.name = NoneV
             THEN Checked(both, "TypeError")
        ELSE Checked(both \o secureName \o nonSecureName
                     \o projectReference(proj, parent, projectRefs), "none")

\* lines 552-604: the checks that depend on the family of the MCU
FamilyChecks ==
    /\ cpc = "family"
    /\ \E parent \in Parents : \E projectRefs \in ProjectReferences :
          LET r == IF mcuFamily = STM32H7 THEN Checked(h7Checks(cproj, parent), "none")
                   ELSE IF mcuFamily \in TrustZoneFamilies
                        THEN trustZoneChecks(cproj, parent, projectRefs)
                   ELSE Checked(<<>>, "none")
          IN  /\ cin' = [step |-> "family", parent |-> parent, projectRefs |-> projectRefs]
              /\ IF r.exception # "none" THEN CubeRaise(r.exception, r.findings)
                 ELSE CubeGo("names", r.findings)
    /\ UNCHANGED <<cproj, mcuFamily>>
    /\ CubeLoopUnchanged
    /\ UNCHANGED notCube

Debug == <<"D", "e", "b", "u", "g">>
Release == <<"R", "e", "l", "e", "a", "s", "e">>
ConfigNames == {Debug, Release, <<"T", "e", "s", "t">>}

ConfigLists == UNION {[1..n -> ConfigNames] : n \in 0..MaxConfigs}

\* The order of Debug and Release is looked at whenever both are declared
configurationNames_WheneverBoth(configNames) ==
    LET declared == {configNames[i] : i \in 1..Len(configNames)}
    IN  (IF Debug \notin declared THEN <<Finding("ER025", "debugMissing", configNames)>> ELSE <<>>)
        \o (IF Release \notin declared THEN <<Finding("ER026", "releaseMissing", configNames)>> ELSE <<>>)
        \o (IF {Debug, Release} \subseteq declared /\ configNames # <<Debug, Release>>
            THEN <<Finding("ER027", "configOrder", configNames)>> ELSE <<>>)

\* The order finding is printed with the code of a missing Release
configurationNames_SharedCode(configNames) ==
    LET declared == {configNames[i] : i \in 1..Len(configNames)}
    IN  (IF Debug \notin declared THEN <<Finding("ER025", "debugMissing", configNames)>> ELSE <<>>)
        \o (IF Release \notin declared THEN <<Finding("ER026", "releaseMissing", configNames)>> ELSE <<>>)
        \o (IF declared = {Debug, Release} /\ configNames # <<Debug, Release>>
            THEN <<Finding("ER026", "configOrder", configNames)>> ELSE <<>>)

\* lines 607-626: the names of the build configurations
configurationNames(configNames) ==
    LET declared == {configNames[i] : i \in 1..Len(configNames)}
    IN  (IF Debug \notin declared THEN <<Finding("ER025", "debugMissing", configNames)>> ELSE <<>>)
        \o (IF Release \notin declared THEN <<Finding("ER026", "releaseMissing", configNames)>> ELSE <<>>)
        \o (IF declared = {Debug, Release} /\ configNames # <<Debug, Release>>
            THEN <<Finding("ER027", "configOrder", configNames)>> ELSE <<>>)

\* lines 607-626, and line 633 with no configuration to visit
ConfigurationNames ==
    /\ cpc = "names"
    /\ \E configNames \in ConfigLists :
          LET found == configurationNames(configNames)
          IN  /\ cin' = [step |-> "names", configNames |-> configNames]
              /\ configsLeft' = configNames
              /\ IF configNames = <<>> THEN CubeReturn(found, cvalid /\ found = <<>>)
                 ELSE CubeGo("config", found)
    /\ UNCHANGED <<cproj, mcuFamily, configName, optionsLeft, libListed, libReported>>
    /\ UNCHANGED notCube

CubeIdePrefix == <<"c", "o", "m", ".", "s", "t", ".", "s", "t", "m", "3", "2", "c", "u", "b", "e", ".", "i", "d", "e", ".">>

\* The parent attribute of a <configuration>: None when it has none
ConfigIdeParent == <<"c", "o", "m", ".", "s", "t", ".", "s", "t", "m", "3", "2", "c", "u", "b", "e", ".", "i", "d", "e", ".", "m", "c", "u", ".", "g", "n", "u">>

ConfigParents == { NoneV, ConfigIdeParent, <<"f", "r", ".", "a", "c", "6", ".", "m", "a", "n", "a", "g", "e", "d", "b", "u", "i", "l", "d">> }

\* The toolchain options of a configuration: "none" no such option, "legacy"
\* the internal default "false", "workspace" the workspace toolchain, "fixed"
\* another toolchain id
Toolchains == {"none", "legacy", "workspace", "fixed"}

\* The configurations the loop is tried on
ConfigAttributes ==
    {[configParent |-> p, toolchain |-> "workspace"] : p \in ConfigParents}
    \cup {[configParent |-> ConfigIdeParent, toolchain |-> t] : t \in Toolchains}

\* lines 633-671: the next configuration, its parent and its toolchain
Configuration ==
    /\ cpc = "config"
    /\ configName' = Head(configsLeft)
    /\ configsLeft' = Tail(configsLeft)
    /\ libListed' = {}
    /\ libReported' = FALSE
    /\ \E attributes \in ConfigAttributes : \E n \in 0..MaxOptions :
          LET configParent == attributes.configParent
              toolchain == attributes.toolchain
          IN
          /\ cin' = [step |-> "config", configParent |-> configParent, toolchain |-> toolchain]
          /\ IF configParent = NoneV
             THEN CubeRaise("AttributeError", <<>>) /\ UNCHANGED optionsLeft
             ELSE /\ optionsLeft' = n
                  /\ CubeGo("options",
                        (IF ~StartsWith(configParent, CubeIdePrefix)
                         THEN <<Finding("ER011", "configParent", configParent)>> ELSE <<>>)
                        \o (IF toolchain \in {"legacy", "fixed"}
                            THEN <<Finding("ER034", "fixedToolchain", toolchain)>> ELSE <<>>))
    /\ UNCHANGED <<cproj, mcuFamily>>
    /\ UNCHANGED notCube

\* superClass of an <option>, without the common prefix
\* "com.st.stm32cube.ide.mcu.gnu.managedbuild.tool."
COptimization == "c.compiler.option.optimization.level"
CppOptimization == "cpp.compiler.option.optimization.level"
CDebugLevel == "c.compiler.option.debuglevel"
CppDebugLevel == "cpp.compiler.option.debuglevel"
CAdditionalObjs == "c.linker.option.additionalobjs"
CppAdditionalObjs == "cpp.linker.option.additionalobjs"
OtherOption == "c.compiler.option.definedsymbols"

\* The value of a level option, without "<superClass>.value."
OPTIMIZATION_DEBUG == {<<"o", "0">>, <<"o", "g">>}
OPTIMIZATION_RELEASE == {<<"o", "s">>}

\* line 752
expectedLib(projectName, name) ==
    <<"$", "{", "w", "o", "r", "k", "s", "p", "a", "c", "e", "_", "l", "o", "c", ":", "/">> \o Replace(projectName, NonSecureSuffix, SecureSuffix)
        \o <<Slash>> \o name \o <<"/", "s", "e", "c", "u", "r", "e", "_", "n", "s", "c", "l", "i", "b", ".", "o", "}">>

Option(superClass, value, values) ==
    [superClass |-> superClass, value |-> value, values |-> values]

NonSecureName == <<"R", "_", "N", "o", "n", "S", "e", "c", "u", "r", "e">>

\* The listOptionValue values of an additional-objects option
AdditionalObjects == {
    <<>>,
    <<<<>>>>,
    <<<<"l", "i", "b", ".", "o">>>>,
    <<<<"l", "i", "b", ".", "o">>, <<"$", "{", "w", "o", "r", "k", "s", "p", "a", "c", "e", "_", "l", "o", "c", ":", "/", "R", "_", "S", "e", "c", "u", "r", "e", "/", "D", "e", "b", "u", "g", "/", "s", "e", "c", "u", "r", "e", "_", "n", "s", "c", "l", "i", "b", ".", "o", "}">>>>,
    <<<<"$", "{", "w", "o", "r", "k", "s", "p", "a", "c", "e", "_", "l", "o", "c", ":", "/", "R", "_", "S", "e", "c", "u", "r", "e", "/", "R", "e", "l", "e", "a", "s", "e", "/", "s", "e", "c", "u", "r", "e", "_", "n", "s", "c", "l", "i", "b", ".", "o", "}">>>>,
    <<<<"R", "_", "S", "e", "c", "u", "r", "e", "/", "D", "e", "b", "u", "g", "/", "s", "e", "c", "u", "r", "e", "_", "n", "s", "c", "l", "i", "b", ".", "o">>>> }

\* The <option> nodes a configuration is tried on
Options ==
    {Option(COptimization, v, <<>>) : v \in {NoneV, <<"o", "0">>, <<"o", "g">>, <<"o", "s">>, <<"o", "2">>}}
    \cup {Option(CppOptimization, v, <<>>) : v \in {<<"o", "g">>, <<"o", "s">>}}
    \cup {Option(CDebugLevel, v, <<>>) : v \in {NoneV, <<"g", "3">>, <<"g", "0">>}}
    \cup {Option(CppDebugLevel, v, <<>>) : v \in {NoneV, <<"g", "3">>, <<"g", "1">>}}
    \cup {Option(CAdditionalObjs, NoneV, vs) : vs \in AdditionalObjects}
    \cup {Option(CppAdditionalObjs, NoneV, vs) : vs \in {<<<<>>>>, <<expectedLib(NonSecureName, Debug)>>}}
    \cup {Option(OtherOption, NoneV, <<>>)}

\* Only the configuration Release is held to its optimization level
optimizationLevel_ReleaseOnly(option, name, pedantic, language) ==
    IF option.value = NoneV
    THEN IF pedantic THEN <<Finding("ER027", "noOptimizationLevel", language)>> ELSE <<>>
    ELSE IF name = Release /\ option.value \notin OPTIMIZATION_RELEASE
         THEN <<Finding("ER028", "optimizationLevel", language)>>
         ELSE <<>>

\* lines 675-696: an optimization level
optimizationLevel(option, name, pedantic, language) ==
    IF option.value = NoneV
    THEN IF pedantic THEN <<Finding("ER027", "noOptimizationLevel", language)>> ELSE <<>>
    ELSE IF \/ name = Debug /\ option.value \notin OPTIMIZATION_DEBUG
            \/ name = Release /\ option.value \notin OPTIMIZATION_RELEASE
         THEN <<Finding("ER028", "optimizationLevel", language)>>
         ELSE <<>>

\* lines 697-720: a debug level
debugLevel(option, name, pedantic, language) ==
    IF option.value = NoneV
    THEN IF pedantic THEN <<Finding("ER029", "noDebugLevel", language)>> ELSE <<>>
    ELSE IF \/ name = Debug /\ option.value # <<"g", "3">>
            \/ name = Release /\ option.value # <<"g", "0">>
         THEN <<Finding("ER030", "debugLevel", language)>>
         ELSE <<>>

\* lines 736-745: "" among the additional objects
emptyObject(option, code, language) ==
    IF \E i \in 1..Len(option.values) : option.values[i] = <<>>
    THEN <<Finding(code, "emptyObject", language)>> ELSE <<>>

\* lines 675-745: the check that goes with the superClass of the option
optionCheck(option, name, pedantic) ==
    IF option.superClass = COptimization THEN optimizationLevel(option, name, pedantic, "C")
    ELSE IF option.superClass = CppOptimization THEN optimizationLevel(option, name, pedantic, "CPP")
    ELSE IF option.superClass = CDebugLevel THEN debugLevel(option, name, pedantic, "C")
    ELSE IF option.superClass = CppDebugLevel THEN debugLevel(option, name, pedantic, "CPP")
    ELSE IF option.superClass = CAdditionalObjs THEN emptyObject(option, "ER031", "C")
    ELSE IF option.superClass = CppAdditionalObjs THEN emptyObject(option, "ER030", "CPP")
    ELSE <<>>

\* lines 749-751: the project is a non-secure one of an STM32L5 or STM32U5
\* with TrustZone
NonSecureTrustZone(natures, family) ==
    /\ family \in TrustZoneFamilies
    /\ MCUEndUserDisabledTrustZoneProjectNature \notin natures
    /\ MCUNonSecureProjectNature \in natures

LinkerOf(option) ==
    IF option.superClass = CAdditionalObjs THEN "C"
    ELSE IF option.superClass = CppAdditionalObjs THEN "CPP" ELSE "none"

HoldsLib(option, lib) == \E i \in 1..Len(option.values) : option.values[i] = lib

\* lines 748-764: secure_nsclib.o among the additional objects of a linker
secureLibrary(option, natures, family, projectName, name) ==
    IF /\ NonSecureTrustZone(natures, family)
       /\ LinkerOf(option) # "none"
       /\ ~HoldsLib(option, expectedLib(projectName, name))
    THEN <<Finding("ER032", "secureLibMissing", LinkerOf(option))>>
    ELSE <<>>

\* lines 673-764: the next <option> of the configuration
ConfigurationOption ==
    /\ cpc = "options"
    /\ optionsLeft > 0
    /\ optionsLeft' = optionsLeft - 1
    /\ \E option \in Options :
          LET lib == secureLibrary(option, cproj.natures, mcuFamily, cproj.projectName, configName)
          IN  /\ cin' = [step |-> "option", option |-> option]
              /\ CubeGo("options", optionCheck(option, configName, cproj.pedantic) \o lib)
              /\ libReported' = (libReported \/ lib # <<>>)
              /\ libListed' =
                    IF /\ NonSecureTrustZone(cproj.natures, mcuFamily)
                       /\ LinkerOf(option) # "none"
                       /\ HoldsLib(option, expectedLib(cproj.projectName, configName))
                    THEN libListed \cup {LinkerOf(option)} ELSE libListed
    /\ UNCHANGED <<cproj, mcuFamily, configsLeft, configName>>
    /\ UNCHANGED notCube

LIBS == <<"$", "(", "L", "I", "B", "S", ")">>

\* The <inputType> of the linker of a configuration: none, or the linker's
\* language and the paths of its additionalInput nodes
InputTypes == {
    [linker |-> "none", paths |-> {}],
    [linker |-> "C", paths |-> {LIBS}],
    [linker |-> "C", paths |-> {}],
    [linker |-> "CPP", paths |-> {<<"$", "(", "U", "S", "E", "R", "_", "O", "B", "J", "S", ")">>}] }

\* lines 766-781: the options are exhausted, the inputs of the linker, and on
\* to the next configuration or to the return
ConfigurationInputs ==
    /\ cpc = "options"
    /\ optionsLeft = 0
    /\ \E inputType \in InputTypes :
          LET found == IF inputType.linker # "none" /\ LIBS \notin inputType.paths
                       THEN <<Finding("ER033", "libsMissing", inputType.linker)>> ELSE <<>>
          IN  /\ cin' = [step |-> "inputs", inputType |-> inputType]
              /\ IF configsLeft = <<>> THEN CubeReturn(found, cvalid /\ found = <<>>)
                 ELSE CubeGo("config", found)
    /\ UNCHANGED <<cproj, mcuFamily, configsLeft, configName, optionsLeft, libListed, libReported>>
    /\ UNCHANGED notCube

CubeNext ==
    \/ EclipseProject \/ CubeStart \/ RootProject \/ LeafProject \/ FamilyChecks
    \/ ConfigurationNames \/ Configuration \/ ConfigurationOption \/ ConfigurationInputs

-----------------------------------------------------------------------------
(* Properties of the validation of one STM32CubeIDE project (SpecCube) *)

Printed(what) == \E i \in 1..Len(cout) : cout[i].what = what

\* C12: a project whose .project or .cproject is absent or is not well-formed
\* XML is validated without an exception leaving the validation.
C12_DescriptorDefectNoException ==
    (cproj.dotProject # "ok" \/ cproj.cproject # "ok") => cexc = "none"

NamesChecked == cin.step = "names"

DeclaredNames == {cin.configNames[i] : i \in 1..Len(cin.configNames)}

\* C14: configurations declared as Release, Debug give the order finding, and
\* a project whose set of configuration names is not exactly {Debug, Release}
\* gives no order finding, whatever the order.
C14_OrderRuleExactSet ==
    NamesChecked =>
        /\ cin.configNames = <<Release, Debug>> => Printed("configOrder")
        /\ DeclaredNames # {Debug, Release} => ~Printed("configOrder")

\* Release then Debug was declared and the order finding was printed
C14_Witness ==
    /\ NamesChecked
    /\ cin.configNames = <<Release, Debug>>
    /\ cout = <<Finding("ER027", "configOrder", <<Release, Debug>>)>>

FirstIndex(name) ==
    CHOOSE i \in 1..Len(cin.configNames) :
        /\ cin.configNames[i] = name
        /\ \A j \in 1..(i - 1) : cin.configNames[j] # name

AbsenceCodes == {"ER025", "ER026"}

\* C15: whenever Debug and Release are both declared and Debug is not declared
\* before Release, the order finding is printed, with a code that is not one
\* of the codes for a missing Debug or Release.
C15_OrderWheneverBothDeclared ==
    (/\ NamesChecked
     /\ Debug \in DeclaredNames /\ Release \in DeclaredNames
     /\ FirstIndex(Release) < FirstIndex(Debug))
    => \E i \in 1..Len(cout) : cout[i].what = "configOrder" /\ cout[i].code \notin AbsenceCodes

\* What the code does: the order is looked at only when Debug and Release are
\* the only names declared; then any list other than Debug, Release gives the
\* order finding, with a code of its own.
C15_OrderWhenExactlyBoth ==
    (/\ NamesChecked
     /\ DeclaredNames = {Debug, Release}
     /\ cin.configNames # <<Debug, Release>>)
    => /\ \E i \in 1..Len(cout) : cout[i].what = "configOrder" /\ cout[i].code \notin AbsenceCodes
       /\ ~Printed("debugMissing") /\ ~Printed("releaseMissing")

\* Release, Debug, Debug: only the two names, not in the required order
C15_Witness ==
    /\ NamesChecked
    /\ cin.configNames = <<Release, Debug, Debug>>
    /\ Printed("configOrder")
    /\ cpc = "config"

LevelClasses == {COptimization, CppOptimization, CDebugLevel, CppDebugLevel}

LevelOption == cin.step = "option" /\ cin.option.superClass \in LevelClasses

LanguageOf(option) ==
    IF option.superClass \in {COptimization, CDebugLevel} THEN "C" ELSE "CPP"

\* The levels a configuration of that name is to have
LevelAllowed(option, name) ==
    IF option.superClass \in {COptimization, CppOptimization}
    THEN IF name = Debug THEN option.value \in {<<"o", "0">>, <<"o", "g">>}
         ELSE option.value = <<"o", "s">>
    ELSE IF name = Debug THEN option.value = <<"g", "3">>
         ELSE option.value = <<"g", "0">>

LevelWhats == {"optimizationLevel", "debugLevel", "noOptimizationLevel", "noDebugLevel"}

LevelFindings == SelectSeq(cout, LAMBDA f : f.what \in LevelWhats)

\* C16: a level option of a configuration named Debug or Release gives no
\* finding only if its level is the required one (Debug: O0 or Og, g3;
\* Release: Os, g0), and each violation gives one finding for that language.
C16_NoFindingOnlyIfRequiredLevel ==
    (LevelOption /\ configName \in {Debug, Release})
    => /\ LevelFindings = <<>> => LevelAllowed(cin.option, configName)
       /\ ~LevelAllowed(cin.option, configName)
             => /\ Len(LevelFindings) = 1
                /\ LevelFindings[1].path = LanguageOf(cin.option)

\* What the code does: an option with a value gives one finding for its
\* language when the configuration is Debug or Release and the value is not a
\* required one, and none otherwise; an option without a value gives a
\* finding only under --pedantic.
C16_ValuedLevelOption ==
    LevelOption =>
        IF cin.option.value = NoneV
        THEN /\ Len(LevelFindings) = (IF cproj.pedantic THEN 1 ELSE 0)
             /\ \A i \in 1..Len(LevelFindings) :
                   /\ LevelFindings[i].what \in {"noOptimizationLevel", "noDebugLevel"}
                   /\ LevelFindings[i].code \in {"ER027", "ER029"}
        ELSE IF configName \in {Debug, Release} /\ ~LevelAllowed(cin.option, configName)
        THEN /\ Len(LevelFindings) = 1
             /\ LevelFindings[1].what \in {"optimizationLevel", "debugLevel"}
             /\ LevelFindings[1].code \in {"ER028", "ER030"}
             /\ LevelFindings[1].path = LanguageOf(cin.option)
        ELSE LevelFindings = <<>>

\* The C optimization level O2 in the configuration Debug
C16_Witness ==
    /\ LevelOption
    /\ configName = Debug
    /\ cin.option = Option(COptimization, <<"o", "2">>, <<>>)
    /\ LevelFindings = <<Finding("ER028", "optimizationLevel", "C")>>

\* A root project of an STM32L5 or STM32U5, TrustZone not disabled, whose
\* children have been looked at
TrustZoneRootChecked ==
    /\ cin.step = "root"
    /\ mcuFamily \in TrustZoneFamilies
    /\ MCUEndUserDisabledTrustZoneProjectNature \notin cproj.natures

ChildrenWith(nature) == {i \in 1..Len(cin.children) : nature \in cin.children[i]}

\* C17: for such a root project "secure project missing" is printed exactly
\* when no child has the secure nature, and "non-secure project missing"
\* exactly when no child has the non-secure nature, each whatever the other.
C17_MissingChildIndependent ==
    TrustZoneRootChecked =>
        /\ Printed("secureMissing") <=> ChildrenWith(MCUSecureProjectNature) = {}
        /\ Printed("nonSecureMissing") <=> ChildrenWith(MCUNonSecureProjectNature) = {}

\* One non-secure child and no secure child: only "secure project missing"
C17_Witness ==
    /\ TrustZoneRootChecked
    /\ cin.children = <<{cnature, MCUNonSecureProjectNature}>>
    /\ Printed("secureMissing")
    /\ ~Printed("nonSecureMissing")

PairingPassed == ~Printed("secureMissing") /\ ~Printed("nonSecureMissing")

NonSecureChecked ==
    /\ cin.step = "family"
    /\ NonSecureTrustZone(cproj.natures, mcuFamily)
    /\ cin.parent.name # NoneV

C20_SecureLibOrFinding ==
    (cin.step = "inputs" /\ NonSecureTrustZone(cproj.natures, mcuFamily))
    => (libListed = {} => libReported)

\* C21: the result of the validation does not depend on the order in which
\* the set of MCU names is iterated: whichever MCU next(iter(mcus)) could
\* have yielded, the validation aborts with it exactly when it aborted.
C21_SameResultWhateverOrder ==
    (cin.step = "start" /\ "first" \in DOMAIN cin)
    => \A other \in cin.mcus : (toMcuFamily(other) = Raise) <=> (cexc = "LookupError")

\* C26: each sub-project is validated once, so no finding of a sub-project is
\* in the output twice.
C26_EachFindingOnce ==
    \A i, j \in 1..Len(printed) : i # j => printed[i] # printed[j]

\* C29: building the namespace ends for every stored name: the loop that adds
\* the parent directories of an entry is always left.
C29_ParentLoopEnds == (zpc = "parents") ~> (zpc # "parents")

-----------------------------------------------------------------------------
(* Properties of the destination walk of the links (SpecRef) *)

\* A file or directory link whose destination was walked
DestinationWalked ==
    /\ lstatus = "links"
    /\ lastOp.op = "link" /\ lastOp.done
    /\ lastOp.link.type \in {<<"1">>, <<"2">>}

\* p of lines 987 and 1027
Destination ==
    IF lastOp.link.type = <<"1">> THEN myPathJoin(project, lastOp.link.name)
    ELSE appendSlashIfMissing(myPathJoin(project, lastOp.link.name))

HidesFindings == SelectSeq(out, LAMBDA f : f.what = "hides")

\* C24: a destination check reports "hides other resources" exactly when the
\* same check with an empty link_validation_cache reports it.
C24_MemoizationKeepsVerdict ==
    DestinationWalked => (HidesFindings # <<>> <=> HidingWalk(Destination, {}).hit # <<>>)

\* The paths the walk from p to the root visits
Visited(p) == {p} \cup Ancestors(p)

\* The visited paths that are in the namespace only when case is ignored
Colliding(p) == {a \in Visited(p) : lower(a) \in lc_names /\ a \notin names}

\* C25: started with an empty cache, the destination check reports the first
\* visited path that is in the namespace only when case is ignored, nothing
\* else, and nothing when no visited path is such a path; the walk ends.
C25_FirstCollisionOnly ==
    [][(/\ link_validation_cache = {}
        /\ lastOp.op = "link" /\ ~lastOp.done /\ lastOp'.done
        /\ lastOp.link.type \in {<<"1">>, <<"2">>}
        /\ lstatus' = "links")
       => LET p == IF lastOp.link.type = <<"1">> THEN myPathJoin(project, lastOp.link.name)
                   ELSE appendSlashIfMissing(myPathJoin(project, lastOp.link.name))
              hides == SelectSeq(out', LAMBDA f : f.what = "hides")
          IN  IF Colliding(p) = {} THEN hides = <<>>
              ELSE hides = <<Finding("ER051", "hides",
                                     CHOOSE a \in Colliding(p) :
                                         \A b \in Colliding(p) : Len(b) <= Len(a))>>]_vars

\* The first link of the project, s/y: /P/s/y is in no case in the archive,
\* its parent /P/s/ is there as /P/S/ only
C25_Witness ==
    /\ DestinationWalked
    /\ lastOp.link.name = <<"s", "/", "y">>
    /\ lastOp.link.type = <<"1">>
    /\ link_validation_cache = {<<"/", "P", "/", "s", "/", "y">>}
    /\ HidesFindings = <<Finding("ER051", "hides", <<"/", "P", "/", "s", "/">>)>>

-----------------------------------------------------------------------------
(* The output: Main.print and the option --exclude *)

MaxPrints == 2   \* findings handed to Main.print

Tab == "\t"

\* str.split(sep) for a separator of one character
RECURSIVE SplitOn(_, _)
SplitOn(s, sep) ==
    LET I == {i \in 1..Len(s) : s[i] = sep}
    IN  IF I = {} THEN <<s>>
        ELSE LET i == CHOOSE k \in I : \A j \in I : k <= j
             IN  <<SubSeq(s, 1, i - 1)>> \o SplitOn(DropFirst(s, i), sep)

\* The elements of a list
Range(sq) == {sq[i] : i \in 1..Len(sq)}

\* str.lstrip()
RECURSIVE lstrip(_)
lstrip(s) == IF s # <<>> /\ Head(s) \in {" ", Tab} THEN lstrip(Tail(s)) ELSE s

ER006 == <<"E", "R", "0", "0", "6">>
ER012 == <<"E", "R", "0", "1", "2">>
ER025 == <<"E", "R", "0", "2", "5">>
ER028 == <<"E", "R", "0", "2", "8">>
ER035 == <<"E", "R", "0", "3", "5">>

\* Rule codes the findings are tried with
RuleCodes == {ER006, ER012, ER025, ER028, ER035}

\* The format strings of the findings up to their first argument after the
\* code: lines 381, 479, 610, 684 and 793
FormatOf(code) ==
    IF code = ER006 THEN <<" ", ":", " ">> \o <<Tab>> \o <<"O", "n", "e", " ", "o", "r", " ", "m", "o", "r", "e", " ", "I", "O", "C", " ", "f", "i", "l", "e", "s", " ", "d", "e", "t", "e", "c", "t", "e", "d", " ", "t", "h", "a", "t", " ", "a", "r", "e", " ", "n", "o", "t", " ", "r", "e", "f", "e", "r", "e", "n", "c", "e", " ", "b", "y", " ", "E", "c", "l", "i", "p", "s", "e", " ", "p", "r", "o", "j", "e", "c", "t", ":", " ">>
    ELSE IF code = ER012 THEN <<":", " ">> \o <<Tab>> \o <<"U", "n", "a", "b", "l", "e", " ", "t", "o", " ", "d", "e", "t", "e", "r", "m", "i", "n", "e", " ", "M", "C", "U", " ", "f", "o", "r", " ", "p", "r", "o", "j", "e", "c", "t">>
    ELSE IF code = ER025 THEN <<":", " ", " ">> \o <<Tab>> \o <<"E", "x", "p", "e", "c", "t", "i", "n", "g", " ", "b", "u", "i", "l", "d", " ", "c", "o", "n", "f", "i", "g", "u", "r", "a", "t", "i", "o", "n", " ", "n", "a", "m", "e", "d", " ">>
    ELSE IF code = ER028 THEN <<":", " ", "W", "r", "o", "n", "g", " ", "C", " ", "o", "p", "t", "i", "m", "i", "z", "a", "t", "i", "o", "n", " ", "l", "e", "v", "e", "l", ":", " ">>
    ELSE <<" ", ":", " ">> \o <<Tab>> \o <<"U", "n", "e", "x", "p", "e", "c", "t", "e", "d", " ", "s", "y", "s", "m", "e", "m", ".", "c", " ", "c", "o", "n", "t", "e", "n", "t", " ", "l", "o", "c", "a", "t", "e", "d", " ", "a", "t", " ">>

\* "<format>".format(error_code, ...)
Message(code) == code \o FormatOf(code)

\* The values of --exclude the output is tried with
Excludes == {NoneV, <<>>, ER006, ER012, ER035, ER012 \o <<",">> \o ER028,
             ER006 \o <<",">> \o ER025}

\* lines 187-202, Main.print: the lines that logger.error writes for s
print(s, exclude, jenkins) ==
    IF jenkins
    THEN LET msg == lstrip(s)
         IN  <<SubSeq(s, 1, Len(s) - Len(msg)) \o <<"E", "R", "R", "O", "R", "_", "Q", "A", ":", " ">> \o msg>>
    ELSE IF exclude = NoneV \/ exclude = <<>> THEN <<s>>
    ELSE LET l == SplitOn(s, ":")
             codes == SplitOn(exclude, ",")
         IN  IF \E i \in 1..Len(codes) : codes[i] = l[1] THEN <<>> ELSE <<s>>

\* The options, and nothing printed yet
PrintInit ==
    /\ error_to_exclude \in Excludes
    /\ jenkinsParser \in BOOLEAN
    /\ said = <<>>
    /\ logged = <<>>

\* A finding of some rule is handed to Main.print
PrintFinding ==
    /\ Len(said) < MaxPrints
    /\ \E code \in RuleCodes :
          /\ said' = Append(said, [code |-> code, s |-> Message(code)])
          /\ logged' = logged \o print(Message(code), error_to_exclude, jenkinsParser)
    /\ UNCHANGED <<error_to_exclude, jenkinsParser>>
    /\ UNCHANGED notPrint

PrintNext == PrintFinding

-----------------------------------------------------------------------------
(* Properties of the output (SpecPrint) *)

\* The codes given with --exclude
ExcludedCodes ==
    IF error_to_exclude = NoneV \/ error_to_exclude = <<>> THEN {}
    ELSE {SplitOn(error_to_exclude, ",")[i] : i \in 1..Len(SplitOn(error_to_exclude, ","))}

\* A line with the text of the finding was written
Written(f) == \E j \in 1..Len(logged) : EndsWith(logged[j], lstrip(f.s))

\* C22: with --exclude given, no finding whose code is among the excluded
\* codes is written, and every other finding is written.
C22_ExcludedNeverWritten ==
    ExcludedCodes # {} =>
        \A i \in 1..Len(said) : Written(said[i]) <=> said[i].code \notin ExcludedCodes

-----------------------------------------------------------------------------
(* The option --skip: the lists of __main__, Main.skipProject and          *)
(* Main.skipScript.  The patterns are tried without metacharacters, for    *)
(* which re.match(pattern, path) is path.startswith(pattern).              *)

\* The files the zip archive may hold; every .project holds a project name
SkipStored == {
    <<"A", "/", "S", "T", "M", "3", "2", "C", "u", "b", "e", "I", "D", "E", "/", ".", "p", "r", "o", "j", "e", "c", "t">>,
    <<"A", "/", "S", "T", "M", "3", "2", "C", "u", "b", "e", "I", "D", "E", "/", "C", "M", "4", "/", ".", "p", "r", "o", "j", "e", "c", "t">>,
    <<"A", "/", "B", "/", "S", "T", "M", "3", "2", "C", "u", "b", "e", "I", "D", "E", "/", ".", "p", "r", "o", "j", "e", "c", "t">>,
    <<"C", "/", "E", "W", "A", "R", "M", "/", "p", ".", "e", "w", "p">>,
    <<"A", "/", "a", ".", "s", "h">>,
    <<"A", "/", "b", ".", "s", "h">>,
    <<"C", "/", "c", ".", "p", "y">> }

\* The values of --skip
SkipOptions == {
    NoneV,
    <<"/", "X">>,
    <<"/", "C">>,
    <<"/", "A", "/", "B">>,
    <<"/", "A", "/", "S", "T", "M", "3", "2", "C", "u", "b", "e", "I", "D", "E", "/", "C", "M", "4">>,
    <<"/", "A", "/", "a">>,
    <<"/", "A", "/", "b", ",", "/", "C">>,
    <<"/", "A", "/", "a", ",", "/", "A">>,
    <<"/", "A", "/", "b", ",", "/", "A", "/", "b", ".", "s", "h">> }

\* The paths that are listed, in the order of sorted()
PathOrder == <<
    <<"/", "A", "/">>,
    <<"/", "A", "/", "B", "/">>,
    <<"/", "A", "/", "B", "/", "S", "T", "M", "3", "2", "C", "u", "b", "e", "I", "D", "E", "/">>,
    <<"/", "A", "/", "S", "T", "M", "3", "2", "C", "u", "b", "e", "I", "D", "E", "/">>,
    <<"/", "A", "/", "S", "T", "M", "3", "2", "C", "u", "b", "e", "I", "D", "E", "/", "C", "M", "4", "/">>,
    <<"/", "A", "/", "a", ".", "s", "h">>,
    <<"/", "A", "/", "b", ".", "s", "h">>,
    <<"/", "C", "/">>,
    <<"/", "C", "/", "c", ".", "p", "y">> >>

\* sorted(list(set(...)))
sorted(S) == SelectSeq(PathOrder, LAMBDA p : p \in S)

ProjectDirs == {<<"E", "W", "A", "R", "M">>, <<"M", "D", "K", "-", "A", "R", "M">>, <<"S", "T", "M", "3", "2", "C", "u", "b", "e", "I", "D", "E">>, <<"T", "r", "u", "e", "S", "T", "U", "D", "I", "O">>, <<"S", "W", "4", "S", "T", "M", "3", "2">>}

\* lines 212-217, without --force-cubeide
listProjects == {getParentDirectory(x) : x \in {p \in names : getBasename(p) \in ProjectDirs}}

\* lines 220-222
listEclipseProjects(root) ==
    {getParentDirectory(x) :
        x \in {p \in names : /\ StartsWith(p, appendSlashIfMissing(root))
                             /\ p # appendSlashIfMissing(root)
                             /\ getBasename(p) = DotProject}}

\* lines 225-231
listScripts ==
    {p \in names : \E suffix \in {<<".", "p", "y">>, <<".", "s", "h">>, <<".", "b", "a", "t">>} : EndsWith(p, suffix)}

\* lines 254-265: some .project below <projRoot>/STM32CubeIDE, TrueSTUDIO or
\* SW4STM32 holds a project name
isEclipseBasedIde(projRoot) ==
    \E x \in names : \E ide \in {<<"S", "T", "M", "3", "2", "C", "u", "b", "e", "I", "D", "E">>, <<"T", "r", "u", "e", "S", "T", "U", "D", "I", "O">>, <<"S", "W", "4", "S", "T", "M", "3", "2">>} :
        LET head == appendSlashIfMissing(projRoot) \o ide
            rest == DropFirst(x, Len(head))
        IN  /\ StartsWith(x, head)
            /\ EndsWith(rest, <<Slash>> \o DotProject)
            /\ Len(rest) = 9 \/ (Len(rest) >= 11 /\ rest[1] = Slash)

\* re.match(pattern, path) for a pattern without metacharacters
reMatch(pattern, path) == StartsWith(path, pattern)

\* lines 1064-1066: the inner loop runs over the list it was started on,
\* projlist is bound anew at every match
RECURSIVE skipProjectInner(_, _, _)
skipProjectInner(iterated, projlist, skip_reg_file) ==
    IF iterated = <<>> THEN projlist
    ELSE skipProjectInner(Tail(iterated),
                          IF reMatch(skip_reg_file, Head(iterated))
                          THEN SelectSeq(projlist, LAMBDA x : x # Head(iterated))
                          ELSE projlist,
                          skip_reg_file)

RECURSIVE skipProjectOuter(_, _)
skipProjectOuter(projlist, skip_reg_files) ==
    IF skip_reg_files = <<>> THEN projlist
    ELSE skipProjectOuter(skipProjectInner(projlist, projlist, Head(skip_reg_files)),
                          Tail(skip_reg_files))

\* lines 1061-1067, Main.skipProject
skipProject(projlist, skip) == skipProjectOuter(projlist, SplitOn(skip, ","))

\* lines 1072-1075: one index for every pair of a script and a pattern that
\* matches it (indices from 1)
RECURSIVE indexListOf(_, _, _)
indexListOf(scriptlist, patterns, script_index) ==
    IF script_index > Len(scriptlist) THEN <<>>
    ELSE SelectSeq([k \in 1..Len(patterns) |->
                        IF reMatch(patterns[k], scriptlist[script_index])
                        THEN script_index ELSE 0],
                   LAMBDA i : i # 0)
         \o indexListOf(scriptlist, patterns, script_index + 1)

\* lines 1076-1077: del scriptlist[index] for the indices from the last to
\* the first; IndexError when the list has become too short
RECURSIVE deleteAll(_, _)
deleteAll(scriptlist, indices) ==
    IF indices = <<>> THEN scriptlist
    ELSE LET index == indices[Len(indices)]
         IN  IF index > Len(scriptlist) THEN Raise
             ELSE deleteAll(SubSeq(scriptlist, 1, index - 1)
                              \o SubSeq(scriptlist, index + 1, Len(scriptlist)),
                            SubSeq(indices, 1, Len(indices) - 1))

\* lines 1069-1078, Main.skipScript
skipScript(scriptlist, skip) ==
    deleteAll(scriptlist, indexListOf(scriptlist, SplitOn(skip, ","), 1))

SkipInit ==
    /\ \E stored \in SUBSET SkipStored :
          /\ names = NamespaceOf(stored)
          /\ lc_names = {lower(x) : x \in NamespaceOf(stored)}
    /\ file_to_skip \in SkipOptions
    /\ proj_list = <<>> /\ list_scripts = <<>>
    /\ called = <<>> /\ missing = <<>> /\ scripted = <<>>
    /\ skpc = "start"

\* lines 1148-1152: the projects are listed and the skipped ones removed
ListProjects ==
    /\ skpc = "start"
    /\ proj_list' = IF file_to_skip # NoneV /\ file_to_skip # <<>>
                    THEN skipProject(sorted(listProjects), file_to_skip)
                    ELSE sorted(listProjects)
    /\ skpc' = "projects"
    /\ UNCHANGED <<file_to_skip, list_scripts, called, missing, scripted, names, lc_names>>
    /\ UNCHANGED notSkip

\* lines 1154-1170: the next project; each of its Eclipse projects is given to
\* validateEclipseProject at line 1167 and again at line 1169
ValidateProject ==
    /\ skpc = "projects"
    /\ proj_list # <<>>
    /\ LET proj == Head(proj_list)
           subprojects == sorted(listEclipseProjects(proj))
       IN  IF ~isEclipseBasedIde(proj)
           THEN /\ missing' = Append(missing, proj)
                /\ UNCHANGED called
           ELSE /\ called' = called \o Concat([i \in 1..Len(subprojects) |->
                                                  <<subprojects[i], subprojects[i]>>])
                /\ UNCHANGED missing
    /\ proj_list' = Tail(proj_list)
    /\ UNCHANGED <<file_to_skip, list_scripts, scripted, skpc, names, lc_names>>
    /\ UNCHANGED notSkip

\* lines 1172-1178: the scripts are listed and the skipped ones removed
ListSkipScripts ==
    /\ skpc = "projects"
    /\ proj_list = <<>>
    /\ LET listed == sorted(listScripts)
           kept == IF file_to_skip # NoneV /\ file_to_skip # <<>>
                   THEN skipScript(listed, file_to_skip) ELSE listed
       IN  IF kept = Raise
           THEN skpc' = "raised" /\ list_scripts' = listed
           ELSE skpc' = "scripts" /\ list_scripts' = kept
    /\ UNCHANGED <<file_to_skip, proj_list, called, missing, scripted, names, lc_names>>
    /\ UNCHANGED notSkip

\* lines 1181-1183: the next script is validated
ValidateNextScript ==
    /\ skpc = "scripts"
    /\ list_scripts # <<>>
    /\ scripted' = Append(scripted, Head(list_scripts))
    /\ list_scripts' = Tail(list_scripts)
    /\ UNCHANGED <<file_to_skip, proj_list, called, missing, skpc, names, lc_names>>
    /\ UNCHANGED notSkip

\* line 1190: the summary
SkipSummary ==
    /\ skpc = "scripts"
    /\ list_scripts = <<>>
    /\ skpc' = "done"
    /\ UNCHANGED <<file_to_skip, proj_list, list_scripts, called, missing, scripted, names, lc_names>>
    /\ UNCHANGED notSkip

SkipNext ==
    \/ ListProjects
    \/ ValidateProject
    \/ ListSkipScripts
    \/ ValidateNextScript
    \/ SkipSummary

-----------------------------------------------------------------------------
(* Properties of the option --skip (SpecSkip) *)

SkipPatterns ==
    IF file_to_skip = NoneV \/ file_to_skip = <<>> THEN {}
    ELSE {SplitOn(file_to_skip, ",")[i] : i \in 1..Len(SplitOn(file_to_skip, ","))}

Skipped(path) == \E pattern \in SkipPatterns : reMatch(pattern, path)

\* C23: with --skip given, no project and no sub-project whose path matches a
\* pattern is validated, and every project that matches none is validated
\* (reported with ER100 or its Eclipse projects given to
\* validateEclipseProject).
C23_SkippedNeverValidated ==
    (skpc \in {"scripts", "done"} /\ SkipPatterns # {})
    => /\ \A path \in Range(called) \cup Range(missing) : ~Skipped(path)
       /\ \A proj \in listProjects :
             ~Skipped(proj) => \/ proj \in Range(missing)
                               \/ listEclipseProjects(proj) \subseteq Range(called)

\* The scripts that were listed and match no pattern, in their order
KeptScripts == SelectSeq(sorted(listScripts), LAMBDA script : ~Skipped(script))

\* C27: skipScript removes exactly the scripts that match a pattern, keeps the
\* other ones in their order, and never raises.
C27_SkipScriptExact ==
    /\ skpc # "raised"
    /\ (skpc = "scripts" /\ scripted = <<>> /\ SkipPatterns # {}) => list_scripts = KeptScripts

-----------------------------------------------------------------------------
(* One script: Main.validateScript *)

MaxBody == 3   \* characters of a script after its first line

CR == "\r"
LF == "\n"

\* "".join(re.split(r"[^\r\n]+", content)): the line terminator characters
newlinesOf(content) == SelectSeq(content, LAMBDA c : c \in {CR, LF})

\* re.match(r"^(\r\n)*$", newlines): "$" matches at the end and also before a
\* "\n" that ends the string
RECURSIVE matchesCrLfRepeated(_)
matchesCrLfRepeated(newlines) ==
    \/ newlines = <<>>
    \/ newlines = <<LF>>
    \/ /\ Len(newlines) >= 2 /\ newlines[1] = CR /\ newlines[2] = LF
       /\ matchesCrLfRepeated(DropFirst(newlines, 2))

\* lines 807-817
eolFormatOf(content) ==
    LET newlines == newlinesOf(content)
    IN  IF matchesCrLfRepeated(newlines) THEN "CRLF"
        ELSE IF LF \in Range(newlines) /\ CR \notin Range(newlines) THEN "LF"
        ELSE IF CR \in Range(newlines) /\ LF \notin Range(newlines) THEN "CR"
        ELSE "MIX"

\* line 819: re.split(r"(\r\n|\r|\n)", content, 1)[0]
RECURSIVE line0Of(_)
line0Of(content) ==
    IF content = <<>> \/ Head(content) \in {CR, LF} THEN <<>>
    ELSE <<Head(content)>> \o line0Of(Tail(content))

\* the longest run of characters other than blanks at the start of s
RECURSIVE word(_)
word(s) == IF s = <<>> \/ Head(s) \in {" ", Tab} THEN <<>> ELSE <<Head(s)>> \o word(Tail(s))

\* line 821: re.match(r"#!\s*(\S+)\s*(.*)$", line0)
shebang(line0) ==
    IF ~StartsWith(line0, <<"#", "!">>) THEN [matched |-> FALSE, group1 |-> <<>>, group2 |-> <<>>]
    ELSE LET after == lstrip(DropFirst(line0, 2))
         IN  IF word(after) = <<>> THEN [matched |-> FALSE, group1 |-> <<>>, group2 |-> <<>>]
             ELSE [matched |-> TRUE, group1 |-> word(after),
                   group2 |-> lstrip(DropFirst(after, Len(word(after))))]

\* os.path.splitext(script)[1]
splitext1(script) ==
    LET name == getBasename(script)
        dot == RFind1(name, ".")
    IN  IF dot <= 1 THEN <<>> ELSE SubSeq(name, dot, Len(name))

\* lines 822-860: the interpreter and the findings about the first line
interpreterOf(script, line0) ==
    LET m == shebang(line0)
    IN  IF m.matched
        THEN LET optionalArgs == SplitOn(m.group2, " ")
             IN  IF getBasename(m.group1) = <<"e", "n", "v">>
                 THEN [interpreter |-> optionalArgs[1],
                       findings |-> IF Len(optionalArgs) > 1
                                    THEN <<Finding("ER037", "envArguments", script)>>
                                    ELSE <<>>]
                 ELSE LET noDash == IF optionalArgs[1] = <<"-">> THEN Tail(optionalArgs)
                                    ELSE optionalArgs
                          args == IF noDash = << <<>> >> THEN <<>> ELSE noDash
                      IN  [interpreter |-> getBasename(m.group1),
                           findings |-> IF args # <<>>
                                        THEN <<Finding("ER038", "arguments", script)>>
                                        ELSE <<>>]
        ELSE [interpreter |-> IF splitext1(script) = <<".", "s", "h">> THEN <<"b", "a", "s", "h">>
                              ELSE IF splitext1(script) = <<".", "p", "y">> THEN <<"p", "y", "t", "h", "o", "n">>
                              ELSE IF splitext1(script) = <<".", "b", "a", "t">> THEN <<"b", "a", "t">>
                              ELSE NoneV,
              findings |-> <<>>]

UnixInterpreters == {<<"b", "a", "s", "h">>, <<"s", "h">>, <<"p", "y", "t", "h", "o", "n">>, <<"p", "y", "t", "h", "o", "n", "2">>, <<"p", "y", "t", "h", "o", "n", "3">>}

\* lines 862-891: the findings about the line endings
lineEndings(script, interpreter, eolFormat, line0) ==
    IF interpreter \in UnixInterpreters
    THEN IF eolFormat # "LF"
         THEN (IF eolFormat = "CRLF" THEN <<Finding("ER039", "dosLineEndings", script)>>
               ELSE IF eolFormat = "MIX" THEN <<Finding("ER040", "mixedLineEndings", script)>>
               ELSE <<>>)
              \o (IF StartsWith(line0, <<"#", "!">>)
                  THEN <<Finding("ER041", "shebangUnreliable", script)>> ELSE <<>>)
         ELSE <<>>
    ELSE IF interpreter = <<"b", "a", "t">>
    THEN IF eolFormat = "LF" THEN <<Finding("ER042", "unixLineEndings", script)>>
         ELSE IF eolFormat = "MIX" THEN <<Finding("ER043", "mixedLineEndings", script)>>
         ELSE <<>>
    ELSE <<Finding("ER044", "interpreter", script)>>

ScriptResult(eolFormat, interpreter, findings, valid, exception) ==
    [eolFormat |-> eolFormat, interpreter |-> interpreter, findings |-> findings,
     valid |-> valid, exception |-> exception]

\* lines 799-893; re.split raises TypeError on the None of a file that does
\* not decode
scriptOutcome(script, content) ==
    IF content = NoneV THEN ScriptResult("none", NoneV, <<>>, FALSE, "TypeError")
    ELSE IF content = <<>> THEN ScriptResult("none", NoneV, <<>>, TRUE, "none")
    ELSE LET eolFormat == eolFormatOf(content)
             line0 == line0Of(content)
             i == interpreterOf(script, line0)
             endings == lineEndings(script, i.interpreter, eolFormat, line0)
             unixValid == i.interpreter \in UnixInterpreters => eolFormat = "LF"
             batValid == i.interpreter = <<"b", "a", "t">> => eolFormat = "CRLF"
         IN  ScriptResult(eolFormat, i.interpreter, i.findings \o endings,
                          i.findings = <<>> /\ endings = <<>> /\ unixValid /\ batValid,
                          "none")

\* The first lines the scripts are tried with, without their terminator
FirstLines == {
    <<>>,
    <<"a">>,
    <<"#", "!", "/", "b", "i", "n", "/", "s", "h">>,
    <<"#", "!", "/", "b", "i", "n", "/", "b", "a", "s", "h", " ", "-", "e">>,
    <<"#", "!", " ", "/", "u", "s", "r", "/", "b", "i", "n", "/", "e", "n", "v", " ", "p", "y", "t", "h", "o", "n", "3">>,
    <<"#", "!", "/", "u", "s", "r", "/", "b", "i", "n", "/", "e", "n", "v", " ", "p", "y", "t", "h", "o", "n", "3", " ", "-", "u">>,
    <<"#", "!", "/", "u", "s", "r", "/", "b", "i", "n", "/", "p", "e", "r", "l">>,
    <<"#", "!">> }

BodyChars == {"a", CR, LF}

ScriptNames == {<<"/", "A", "/", "a", ".", "s", "h">>, <<"/", "C", "/", "c", ".", "p", "y">>, <<"/", "A", "/", "r", ".", "b", "a", "t">>}

ScriptInit ==
    /\ sname \in ScriptNames
    /\ scontent \in {NoneV} \cup {first \o body : first \in FirstLines,
                                               body \in SeqsUpTo(BodyChars, MaxBody)}
    /\ sres = ScriptResult("none", NoneV, <<>>, TRUE, "none")
    /\ scpc = "call"

\* the script is validated
ValidateScriptContent ==
    /\ scpc = "call"
    /\ sres' = scriptOutcome(sname, scontent)
    /\ scpc' = "returned"
    /\ UNCHANGED <<sname, scontent>>
    /\ UNCHANGED notScript

ScriptNext == ValidateScriptContent

-----------------------------------------------------------------------------
(* Properties of the validation of a script (SpecScript) *)

\* A script with content that was validated to the end
ScriptValidated == scpc = "returned" /\ scontent # NoneV /\ scontent # <<>>

Terminators == newlinesOf(scontent)

LineEndingWhats == {"dosLineEndings", "mixedLineEndings", "unixLineEndings", "shebangUnreliable"}

\* C28: a script is classified CRLF only if it has a line terminator and all
\* its terminators are CR LF, and a script run by bash, sh or python with no
\* CR in it gets no finding about its line endings.
C28_CrLfOnlyWithTerminators ==
    ScriptValidated =>
        /\ sres.eolFormat = "CRLF"
              => /\ Terminators # <<>>
                 /\ Len(Terminators) % 2 = 0
                 /\ \A i \in 1..Len(Terminators) :
                       Terminators[i] = (IF i % 2 = 1 THEN CR ELSE LF)
        /\ (sres.interpreter \in UnixInterpreters /\ CR \notin Range(scontent))
              => \A i \in 1..Len(sres.findings) : sres.findings[i].what \notin LineEndingWhats

-----------------------------------------------------------------------------
(* The specifications: each part of the program on its own, the variables  *)
(* of the other parts idle.                                                *)

ArchOff ==
    /\ zips = <<>> /\ zModels = <<>> /\ zi = 0 /\ ze = 0 /\ tmp = NoneV
    /\ zpc = "off" /\ archives = <<>> /\ names = {} /\ lc_names = {}
    /\ qPath = NoneV /\ qOut = NoneV

ResOff ==
    /\ rProj = NoneV /\ rBuild = NoneV /\ rValue = NoneV /\ rShape = NoneV
    /\ rOp = "off" /\ rOut = NoneV

RefOff ==
    /\ project = NoneV /\ iocFiles = {} /\ link_validation_cache = {} /\ out = <<>>
    /\ checked = <<>> /\ lastOp = [op |-> "none", done |-> TRUE] /\ lstatus = "off"
    /\ unlinked = {}

ArchIdle ==
    /\ zips = <<>> /\ zModels = <<>> /\ zi = 0 /\ ze = 0 /\ tmp = NoneV
    /\ zpc = "off" /\ archives = <<>> /\ qPath = NoneV /\ qOut = NoneV

RunOff ==
    /\ phase = "off"
    /\ total_projects = 0 /\ failed_proj = 0 /\ listof_failed_projects = <<>>
    /\ list_subproj = 0 /\ subproj = NoneV /\ failed_subproj = 0
    /\ total_scripts = 0 /\ failed_scripts = 0 /\ listof_failed_scripts = <<>>
    /\ printed = <<>> /\ verdict = "none" /\ uncaught = "none" /\ exitCode = -1

CubeOff ==
    /\ cpc = "off" /\ cproj = NoneV /\ mcuFamily = NoneV /\ cvalid = TRUE
    /\ cin = NoneV /\ cout = <<>> /\ configsLeft = <<>> /\ configName = NoneV
    /\ optionsLeft = 0 /\ libListed = {} /\ libReported = FALSE /\ cexc = "none"

PrintOff ==
    /\ error_to_exclude = NoneV /\ jenkinsParser = FALSE /\ said = <<>> /\ logged = <<>>

SkipOff ==
    /\ file_to_skip = NoneV /\ proj_list = <<>> /\ list_scripts = <<>> /\ called = <<>>
    /\ missing = <<>> /\ scripted = <<>> /\ skpc = "off"

ScriptOff == sname = NoneV /\ scontent = NoneV /\ sres = NoneV /\ scpc = "off"

InitArchive == ArchInit /\ ResOff /\ RefOff /\ RunOff /\ CubeOff /\ PrintOff /\ SkipOff /\ ScriptOff

SpecArchive == InitArchive /\ [][ArchNext]_vars

\* The interpreter goes on with the loops of Archive.__init__ and with
\* Main.__init__ for as long as they have a step to make
SpecArchiveFair ==
    /\ InitArchive /\ [][ArchNext]_vars
    /\ WF_vars(ArchiveEntry) /\ WF_vars(ArchiveParent) /\ WF_vars(MainInit)

InitResolve == ResInit /\ ArchOff /\ RefOff /\ RunOff /\ CubeOff /\ PrintOff /\ SkipOff /\ ScriptOff

SpecResolve == InitResolve /\ [][ResNext]_vars

InitRef == RefInit /\ ArchIdle /\ ResOff /\ RunOff /\ CubeOff /\ PrintOff /\ SkipOff /\ ScriptOff

SpecRef == InitRef /\ [][RefNext]_vars

InitRun == RunInit /\ ArchOff /\ ResOff /\ RefOff /\ CubeOff /\ PrintOff /\ SkipOff /\ ScriptOff

SpecRun == InitRun /\ [][RunNext]_vars

InitCube == CubeInit /\ ArchOff /\ ResOff /\ RefOff /\ RunOff /\ PrintOff /\ SkipOff /\ ScriptOff

SpecCube == InitCube /\ [][CubeNext]_vars

InitPrint == PrintInit /\ ArchOff /\ ResOff /\ RefOff /\ RunOff /\ CubeOff /\ SkipOff /\ ScriptOff

SpecPrint == InitPrint /\ [][PrintNext]_vars

InitSkip == SkipInit /\ ArchIdle /\ ResOff /\ RefOff /\ RunOff /\ CubeOff /\ PrintOff /\ ScriptOff

SpecSkip == InitSkip /\ [][SkipNext]_vars

InitScript == ScriptInit /\ ArchOff /\ ResOff /\ RefOff /\ RunOff /\ CubeOff /\ PrintOff /\ SkipOff

SpecScript == InitScript /\ [][ScriptNext]_vars

====
